---- MODULE Spec2Model ----
(***************************************************************************)
(* A model of the crawl engine of Juliusnowel/Scrapping-Site:              *)
(*   src/crawler.py        crawl_to_zip, its worker threads, RateLimiter   *)
(*   src/mirror_assets.py  AssetMirror, RateLimiter                        *)
(* The module holds several specifications over one set of variables; the *)
(* variables a specification does not use keep their initial value.       *)
(*   Spec         the worker pool of crawl_to_zip draining the frontier    *)
(*   SpecLimiter  one RateLimiter instance and its concurrent callers      *)
(*   SpecMirror   the AssetMirror instances of the workers of one run      *)
(*   SpecEntry    crawl_to_zip from its call to its return or raise        *)
(*   SpecFetch    the retry loops of crawl_to_zip.worker and of            *)
(*                crawler_excel.fetch for one URL                          *)
(***************************************************************************)
EXTENDS Integers, Sequences, FiniteSets, TLC

VARIABLES
    \* ---- crawl_to_zip: the frontier, the sinks and the worker threads
    max_pages,      \* the max_pages argument of the run
    q,              \* queue.Queue(): the FIFO of URLs
    unfinished,     \* Queue.unfinished_tasks (put: +1, task_done: -1)
    seen,           \* set of successfully fetched URLs
    in_queue,       \* set of URLs that were put on q
    dropped,        \* list of (url, reason)
    pages_rows,     \* pages.csv: number of rows written per URL
    pc,             \* per worker: the place in worker()
    url,            \* per worker: the URL it took from q
    li,             \* per worker: index of the next <a href> of the page
    put_count,      \* history: how often each URL was put on q
    outcome,        \* history: how the processing of each URL ended
    faults,         \* history: how many URLs ended otherwise than in success
    mainpc,         \* the main thread: "join" or "packaged"
    manifest,       \* pages_crawled of manifest.csv, once packaged
    failures,       \* rows of failures.csv, once packaged
    \* ---- RateLimiter: one instance, its clock and its callers
    lkind,          \* "crawler" (crawler.py) or "mirror" (mirror_assets.py)
    lclock,         \* the clock wait() reads, in ticks
    lnext,          \* self._next
    lholder,        \* the caller holding self._lock, or NoCaller
    lnow,           \* the value of now the holder read
    grants,         \* history: the clock at each grant, in order
    \* ---- AssetMirror: one instance per worker, one run
    mmap,           \* per worker: the keys of self.map of its AssetMirror
    mpc,            \* per worker: the place in mirror_and_rewrite
    mi,             \* per worker: index of the next reference of the page
    mj,             \* per worker: index of the next url(...) of the stylesheet
    mpages,         \* number of pages handed to mirror_and_rewrite so far
    assets_rows,    \* assets.csv: the rows <<asset, status, local path>>
    fetch_count,    \* history: network fetches per asset URL
    mrefs,          \* per worker: what the references of its page hold now
    mfiles,         \* the assets whose file has been written under outroot
    mlast,          \* per worker: what its last self._fetch returned
    \* ---- crawl_to_zip: the call itself
    emode,          \* the mode argument
    ets,            \* whether wayback_timestamp is given (not None, not "")
    eseed,          \* the seed URL
    econc,          \* the concurrency argument
    epc,            \* the place in crawl_to_zip
    elookup,        \* history: how _wb_latest_timestamp ended
    \* ---- the retry loop for one URL
    ffetcher,       \* "worker" (crawler.py) or "fetch" (crawler_excel.py)
    fpc,            \* the place in the loop
    fattempt,       \* attempt (crawler.py), tries (crawler_excel.py)
    fhops,          \* hops (crawler_excel.py)
    fprev,          \* the response the last sleep answered, or NoResponse
    fsleep,         \* the argument of the last time.sleep, in tenths of a second
    fdelay,         \* tenths of a second from the last response to this attempt
    fwaits,         \* the waits on the page limiter made for the URL
    fsends,         \* the requests sent for the URL
    fdrops,         \* the reasons appended to dropped for the URL
    fseen,          \* the URL has been added to seen
    frows,          \* the rows written to pages.csv for the URL
    fputs,          \* the links of the page put on the queue
    fcur,           \* cur of fetch(): the URL of the next request
    fchain,         \* chain of fetch(): the triples (status, from, to)
    fattached,      \* _redirect_chain of the response returned, or NoChain
    \* ---- the admission of links, on URLs with hosts and paths
    amode,          \* the mode argument
    aallow,         \* the allow_subdomains argument
    aseed,          \* seed_url
    aq,             \* the queue
    ain_queue,      \* in_queue
    aseen,          \* seen
    afetched,       \* history: the URLs that passed the gate of the worker
    acur,           \* the page whose links are being read, or NoPage
    anl,            \* the number of links of the page read so far
    alast,          \* history: the last link read and whether it was put
    \* ---- _wb_url and _wb_strip as functions
    wts,            \* the snapshot timestamp
    wu,             \* the original URL
    wpc,            \* "start", "built", "stripped" or "plain"
    wout,           \* the result of the last function applied
    \* ---- the image probes of one page
    pcache,         \* _IMG_CACHE: image URL -> probe result, or NoProbe
    prows,          \* the rows written to images.csv for the page
    ppc,            \* "pick", "head", "get"
    pimg,           \* the image URL being probed
    ptrace,         \* the limiter waits and requests of the last probe, in order
    phead,          \* what the HEAD of the last probe answered, or NoHead
    \* ---- the url(...) token of one mirrored stylesheet
    scss,           \* the URL of the stylesheet
    stoken,         \* the token inside url(...)
    smap,           \* AssetMirror.map: records [url, rel]
    spc,            \* "start", "failed", "token", "fetch", "written", "done"
    sout,           \* what stands in url(...) of the stylesheet written
    \* ---- _normalize of crawler_excel as a function
    ncanon,         \* CANON_HOST, <<>> when no host is pinned
    nu,             \* the URL given
    npc,            \* "start", "once", "twice"
    nonce,          \* _normalize(u)
    ntwice,         \* _normalize(_normalize(u))
    \* ---- the runs of crawl_to_zip in one process
    rmode,          \* run -> "live" or "wayback"
    rpc,            \* run -> "new", "running", "done"
    rsteps,         \* run -> the waits and probes it has made
    lim_writer,     \* limiter -> the run that last advanced its cursor, 0 for none
    cache_writer,   \* image URL -> the run that stored its result, 0 for none
    rreads,         \* the reads made: [by, of, what]
    lstep,          \* per thread: the lock-taking call it is at, 0 when returned
    lphase,         \* per thread: "out" before the lock is taken, "in" inside
    lheld,          \* per thread: the locks it holds
    lowner,         \* per lock: the thread that owns it, 0 when free
    ccache,         \* _IMG_CACHE: image URL -> the tuple stored, or NotCached
    cpc,            \* per worker: "tag", "probe", "store", "row"
    cimg,           \* per worker: img_url of the tag it is at
    cres,           \* per worker: the result it holds for the tag
    ctags,          \* per worker: the <img> tags it has taken
    cprobes,        \* history: network probes per image URL
    chits,          \* history: tags answered from the cache, per image URL
    tfiles,         \* the files below outroot: path -> the URL whose content it holds
    tmirrored       \* history: the URLs written so far, each with kind and path

crawlVars == <<max_pages, q, unfinished, seen, in_queue, dropped, pages_rows, pc,
               url, li, put_count, outcome, faults, mainpc, manifest, failures>>

limVars == <<lkind, lclock, lnext, lholder, lnow, grants>>

mirVars == <<mmap, mpc, mi, mj, mpages, assets_rows, fetch_count, mrefs, mfiles, mlast>>

entVars == <<emode, ets, eseed, econc, epc, elookup>>

fetVars ==
    <<ffetcher, fpc, fattempt, fhops, fprev, fsleep, fdelay, fwaits, fsends,
      fdrops, fseen, frows, fputs, fcur, fchain, fattached>>

admVars == <<amode, aallow, aseed, aq, ain_queue, aseen, afetched, acur, anl, alast>>

wbVars == <<wts, wu, wpc, wout>>

probeVars == <<pcache, prows, ppc, pimg, ptrace, phead>>

cssVars == <<scss, stoken, smap, spc, sout>>

normVars == <<ncanon, nu, npc, nonce, ntwice>>

runVars == <<rmode, rpc, rsteps, lim_writer, cache_writer, rreads>>

lockVars == <<lstep, lphase, lheld, lowner>>

cacheVars == <<ccache, cpc, cimg, cres, ctags, cprobes, chits>>

pathVars == <<tfiles, tmirrored>>

vars == <<crawlVars, limVars, mirVars, entVars, fetVars, admVars, wbVars, probeVars, cssVars, normVars, runVars, lockVars, cacheVars, pathVars>>

\* the variables the worker pool does not use
CrawlOnly == UNCHANGED <<limVars, mirVars, entVars, fetVars, admVars, wbVars, probeVars, cssVars, normVars, runVars, lockVars, cacheVars, pathVars>>

\* the variables the rate limiter does not use
LimiterOnly == UNCHANGED <<crawlVars, mirVars, entVars, fetVars, admVars, wbVars, probeVars, cssVars, normVars, runVars, lockVars, cacheVars, pathVars>>

\* the variables the asset mirrors do not use
MirrorOnly == UNCHANGED <<crawlVars, limVars, entVars, fetVars, admVars, wbVars, probeVars, cssVars, normVars, runVars, lockVars, cacheVars, pathVars>>

\* the variables the call of crawl_to_zip does not use
EntryOnly == UNCHANGED <<crawlVars, limVars, mirVars, fetVars, admVars, wbVars, probeVars, cssVars, normVars, runVars, lockVars, cacheVars, pathVars>>

\* the variables the retry loop does not use
FetchOnly == UNCHANGED <<crawlVars, limVars, mirVars, entVars, admVars, wbVars, probeVars, cssVars, normVars, runVars, lockVars, cacheVars, pathVars>>

\* the variables the admission of links does not use
AdmitOnly == UNCHANGED <<crawlVars, limVars, mirVars, entVars, fetVars, wbVars, probeVars, cssVars, normVars, runVars, lockVars, cacheVars, pathVars>>

\* the variables _wb_url and _wb_strip do not use
WaybackOnly == UNCHANGED <<crawlVars, limVars, mirVars, entVars, fetVars, admVars, probeVars, cssVars, normVars, runVars, lockVars, cacheVars, pathVars>>

\* the variables the image probes do not use
ProbeOnly == UNCHANGED <<crawlVars, limVars, mirVars, entVars, fetVars, admVars, wbVars, cssVars, normVars, runVars, lockVars, cacheVars, pathVars>>

\* the variables the stylesheet paths do not use
CssOnly == UNCHANGED <<crawlVars, limVars, mirVars, entVars, fetVars, admVars, wbVars, probeVars, normVars, runVars, lockVars, cacheVars, pathVars>>

\* the variables _normalize does not use
NormOnly == UNCHANGED <<crawlVars, limVars, mirVars, entVars, fetVars, admVars, wbVars, probeVars, cssVars, runVars, lockVars, cacheVars, pathVars>>

\* the variables the runs do not use
RunsOnly == UNCHANGED <<crawlVars, limVars, mirVars, entVars, fetVars, admVars, wbVars, probeVars, cssVars, normVars, lockVars, cacheVars, pathVars>>

\* the variables the locks of a run do not use
LocksOnly == UNCHANGED <<crawlVars, limVars, mirVars, entVars, fetVars, admVars, wbVars, probeVars, cssVars, normVars, runVars, cacheVars, pathVars>>

\* the variables the probe cache does not use
CacheOnly == UNCHANGED <<crawlVars, limVars, mirVars, entVars, fetVars, admVars, wbVars, probeVars, cssVars, normVars, runVars, lockVars, pathVars>>

\* the variables the files of a run do not use
PathsOnly == UNCHANGED <<crawlVars, limVars, mirVars, entVars, fetVars, admVars, wbVars, probeVars, cssVars, normVars, runVars, lockVars, cacheVars>>

(***************************************************************************)
(* Bounds of the model and constants of the program.                       *)
(***************************************************************************)
NumUrls == 3
NumWorkers == 2
MaxPagesBound == 3
MaxFaults == 1
MAX_RETRIES == 5

Workers == 1..NumWorkers
NoUrl == 0

(***************************************************************************)
(* The site.  Pages 1..NumUrls are on the root host, in English; page 1 is *)
(* the seed.  ExternalUrl is on another host, DeniedUrl is a /fr/ page of  *)
(* the root host.  The link graph has pages linking to more pages than     *)
(* max_pages, several pages linking to the same page, self links, cycles.  *)
(***************************************************************************)
SiteUrls == 1..NumUrls
ExternalUrl == NumUrls + 1
DeniedUrl == NumUrls + 2
AllUrls == SiteUrls \cup {ExternalUrl, DeniedUrl}
SeedUrl == 1

RECURSIVE SetToSeq(_)
Range(f) == {f[i] : i \in DOMAIN f}

Last(sq) == sq[Len(sq)]

Min(a, b) == IF a <= b THEN a ELSE b

Max(a, b) == IF a >= b THEN a ELSE b

SetToSeq(S) ==
    IF S = {} THEN <<>>
    ELSE LET m == CHOOSE x \in S : \A y \in S : x <= y
         IN  <<m>> \o SetToSeq(S \ {m})

\* the <a href> targets of a page, as absolute URLs, in document order: every
\* page links to the pages after it, to itself and back to the seed, and the
\* seed also links to the external and to the /fr/ URL
SiteLinks ==
    [u \in SiteUrls |->
        SetToSeq({x \in SiteUrls : x > u}) \o <<u, SeedUrl>>
            \o (IF u = SeedUrl THEN <<ExternalUrl, DeniedUrl>> ELSE <<>>)]

LinksOf(u) == SiteLinks[u]

\* _same_domain(link_url, root_netloc, allow_subdomains=True)
SameDomain(u) == u # ExternalUrl

\* _english_allowed(url, root_netloc)
EnglishAllowed(u) == u # DeniedUrl

(***************************************************************************)
(* One attempt of the fetch loop: what session.get gives, and what the     *)
(* loop does with it on attempt number a.                                  *)
(*   "net"   ReadTimeout, ConnectTimeout or ConnectionError                *)
(*   "exc"   any other exception raised by session.get                     *)
(*   "resp"  a response: status, html (content-type holds text/html),      *)
(*           soft (the body carries a soft-block marker)                   *)
(***************************************************************************)
Response(kind, status, html, soft) ==
    [kind |-> kind, status |-> status, html |-> html, soft |-> soft]

CrawlResponses ==
    { Response("net", 0, FALSE, FALSE),
      Response("exc", 0, FALSE, FALSE),
      Response("resp", 200, TRUE, FALSE),
      Response("resp", 404, TRUE, FALSE),
      Response("resp", 429, TRUE, FALSE) }

\* the branch of the loop body taken for response r
Branch(r) ==
    IF r.kind = "exc" THEN "error"
    ELSE IF r.kind = "net" THEN "net"
    ELSE IF r.status \in {429, 503} THEN "throttle"
    ELSE IF r.status # 200 \/ ~r.html THEN "abort"
    ELSE IF r.soft THEN "soft"
    ELSE "success"

Retryable(b) == b \in {"net", "throttle", "soft"}

\* what the loop does with response r received on attempt number a
Step(a, r) ==
    IF Retryable(Branch(r)) THEN (IF a < MAX_RETRIES THEN "retry" ELSE "dropped")
    ELSE Branch(r)

\* how the loop ends when r is the result of its last session.get: a result
\* that is retried ends the loop only on attempt MAX_RETRIES
LoopResult(r) == Step(MAX_RETRIES, r)

DropReason(r) ==
    IF Branch(r) = "net" THEN "net-timeout after retries"
    ELSE IF Branch(r) = "throttle" THEN
        (IF r.status = 429 THEN "429 after retries" ELSE "503 after retries")
    ELSE "429 body after retries"

(***************************************************************************)
(* crawl_to_zip up to the start of the threads.                            *)
(***************************************************************************)
CrawlInit ==
    /\ max_pages \in 1..MaxPagesBound
    /\ q = <<SeedUrl>>
    /\ unfinished = 1
    /\ seen = {}
    /\ in_queue = {SeedUrl}
    /\ dropped = <<>>
    /\ pages_rows = [u \in SiteUrls |-> 0]
    /\ pc = [w \in Workers |-> "get"]
    /\ url = [w \in Workers |-> NoUrl]
    /\ li = [w \in Workers |-> 0]
    /\ put_count = [u \in AllUrls |-> IF u = SeedUrl THEN 1 ELSE 0]
    /\ outcome = [u \in SiteUrls |-> {}]
    /\ faults = 0
    /\ mainpc = "join"
    /\ manifest = 0
    /\ failures = <<>>

\* TaskDone without the except clause: the exception ends the thread
TaskDone_ThreadDies(w, how) ==
    /\ unfinished' = unfinished - 1
    /\ outcome' = [outcome EXCEPT ![url[w]] = @ \cup {how}]
    /\ faults' = IF how = "success" THEN faults ELSE faults + 1
    /\ pc' = [pc EXCEPT ![w] = IF how = "error" THEN "exited" ELSE "get"]
    /\ url' = [url EXCEPT ![w] = NoUrl]
    /\ li' = [li EXCEPT ![w] = 0]

\* a mutant of TaskDone: the finally clause does not run after an exception
TaskDone_NotOnError(w, how) ==
    /\ unfinished' = IF how = "error" THEN unfinished ELSE unfinished - 1
    /\ outcome' = [outcome EXCEPT ![url[w]] = @ \cup {how}]
    /\ faults' = IF how = "success" THEN faults ELSE faults + 1
    /\ pc' = [pc EXCEPT ![w] = "get"]
    /\ url' = [url EXCEPT ![w] = NoUrl]
    /\ li' = [li EXCEPT ![w] = 0]

\* the finally clause: q.task_done(), and back to the top of the loop
TaskDone(w, how) ==
    /\ unfinished' = unfinished - 1
    /\ outcome' = [outcome EXCEPT ![url[w]] = @ \cup {how}]
    /\ faults' = IF how = "success" THEN faults ELSE faults + 1
    /\ pc' = [pc EXCEPT ![w] = "get"]
    /\ url' = [url EXCEPT ![w] = NoUrl]
    /\ li' = [li EXCEPT ![w] = 0]

\* Get that takes the URL out of in_queue as it leaves the queue
Get_Discard(w) ==
    /\ pc[w] = "get"
    /\ q # <<>>
    /\ q' = Tail(q)
    /\ in_queue' = in_queue \ {Head(q)}
    /\ pc' = [pc EXCEPT ![w] = "fetch"]
    /\ url' = [url EXCEPT ![w] = Head(q)]
    /\ UNCHANGED <<max_pages, unfinished, outcome, faults, seen, dropped, pages_rows, li,
                   put_count, mainpc, manifest, failures>>
    /\ CrawlOnly

\* url = q.get(timeout=1), and the language gate on the dequeued URL
Get(w) ==
    /\ pc[w] = "get"
    /\ q # <<>>
    /\ q' = Tail(q)
    /\ IF EnglishAllowed(Head(q))
       THEN /\ pc' = [pc EXCEPT ![w] = "fetch"]
            /\ url' = [url EXCEPT ![w] = Head(q)]
            /\ UNCHANGED <<unfinished, outcome, faults>>
       ELSE /\ unfinished' = unfinished - 1
            /\ outcome' = [outcome EXCEPT ![Head(q)] = @ \cup {"skipped"}]
            /\ faults' = faults + 1
            /\ UNCHANGED <<pc, url>>
    /\ UNCHANGED <<max_pages, seen, in_queue, dropped, pages_rows, li,
                   put_count, mainpc, manifest, failures>>
    /\ CrawlOnly

\* a mutant of Exit: the worker returns although the queue holds a URL
Exit_QueueNotEmpty(w) ==
    /\ pc[w] = "get"
    /\ pc' = [pc EXCEPT ![w] = "exited"]
    /\ UNCHANGED <<max_pages, q, unfinished, seen, in_queue, dropped, pages_rows,
                   url, li, put_count, outcome, faults, mainpc, manifest, failures>>
    /\ CrawlOnly

\* queue.Empty after the timeout: the worker returns
Exit(w) ==
    /\ pc[w] = "get"
    /\ q = <<>>
    /\ pc' = [pc EXCEPT ![w] = "exited"]
    /\ UNCHANGED <<max_pages, q, unfinished, seen, in_queue, dropped, pages_rows,
                   url, li, put_count, outcome, faults, mainpc, manifest, failures>>
    /\ CrawlOnly

\* the fetch loop of one URL, from attempt = 0 to the break that ends it, r being
\* the result of the last session.get: the loop ends on attempt a with r when
\* Step(a, r) is not "retry", the attempts before a having each ended in a sleep
\* and continue.  On success seen.add(url) is the last step taken here.
Fetch(w, r) ==
    /\ pc[w] = "fetch"
    /\ \E a \in 1..MAX_RETRIES : Step(a, r) # "retry"
    /\ LoopResult(r) # "success" => faults < MaxFaults
    /\ CASE LoopResult(r) = "dropped" ->
              /\ dropped' = Append(dropped, <<url[w], DropReason(r)>>)
              /\ TaskDone(w, "dropped")
              /\ UNCHANGED seen
         [] LoopResult(r) = "abort" ->
              /\ TaskDone(w, "abort")
              /\ UNCHANGED <<seen, dropped>>
         [] LoopResult(r) = "error" ->
              /\ TaskDone(w, "error")
              /\ UNCHANGED <<seen, dropped>>
         [] LoopResult(r) = "success" ->
              /\ seen' = seen \cup {url[w]}
              /\ pc' = [pc EXCEPT ![w] = "row"]
              /\ UNCHANGED <<unfinished, dropped, url, li, outcome, faults>>
    /\ UNCHANGED <<max_pages, q, in_queue, pages_rows, put_count, mainpc, manifest,
                   failures>>
    /\ CrawlOnly

\* soup = BeautifulSoup(...); row = _extract_page_fields(...); pages_writer.writerow(row)
WriteRow(w) ==
    /\ pc[w] = "row"
    /\ pages_rows' = [pages_rows EXCEPT ![url[w]] = @ + 1]
    /\ pc' = [pc EXCEPT ![w] = "links"]
    /\ li' = [li EXCEPT ![w] = 1]
    /\ UNCHANGED <<max_pages, q, unfinished, seen, in_queue, dropped, url,
                   put_count, outcome, faults, mainpc, manifest, failures>>
    /\ CrawlOnly

\* the admission test of one link: the filters, then the reads of seen and in_queue
Admitted(l) ==
    /\ SameDomain(l)
    /\ l \notin seen
    /\ l \notin in_queue
    /\ Cardinality(seen) < max_pages

\* the index of the first <a href> of page u, from index i on, that passes the
\* admission test now; Len + 1 when there is none.  A link that fails the test
\* fails it at every later moment too (seen and in_queue only grow), so the
\* links that fail are passed over in the step that reaches the next one.
RECURSIVE NextAdmitted(_, _)
NextAdmitted(u, i) ==
    IF i > Len(LinksOf(u)) THEN i
    ELSE IF EnglishAllowed(LinksOf(u)[i]) /\ Admitted(LinksOf(u)[i]) THEN i
    ELSE NextAdmitted(u, i + 1)

\* the loop over the <a href> of the page, up to the next link that is admitted
CheckLink(w) ==
    /\ pc[w] = "links"
    /\ NextAdmitted(url[w], li[w]) <= Len(LinksOf(url[w]))
    /\ li' = [li EXCEPT ![w] = NextAdmitted(url[w], li[w])]
    /\ pc' = [pc EXCEPT ![w] = "put"]
    /\ UNCHANGED <<max_pages, q, unfinished, seen, in_queue, dropped, pages_rows, url,
                   put_count, outcome, faults, mainpc, manifest, failures>>
    /\ CrawlOnly

\* q.put(link_url)
PutLink(w) ==
    /\ pc[w] = "put"
    /\ LET l == LinksOf(url[w])[li[w]]
       IN  /\ q' = Append(q, l)
           /\ put_count' = [put_count EXCEPT ![l] = @ + 1]
    /\ unfinished' = unfinished + 1
    /\ pc' = [pc EXCEPT ![w] = "add"]
    /\ UNCHANGED <<max_pages, seen, in_queue, dropped, pages_rows, url, li,
                   outcome, faults, mainpc, manifest, failures>>
    /\ CrawlOnly

\* in_queue.add(link_url)
AddInQueue(w) ==
    /\ pc[w] = "add"
    /\ in_queue' = in_queue \cup {LinksOf(url[w])[li[w]]}
    /\ li' = [li EXCEPT ![w] = @ + 1]
    /\ pc' = [pc EXCEPT ![w] = "links"]
    /\ UNCHANGED <<max_pages, q, unfinished, seen, dropped, pages_rows, url,
                   put_count, outcome, faults, mainpc, manifest, failures>>
    /\ CrawlOnly

\* the images, the mirror and the final HTML of the page; break; finally
FinishPage(w) ==
    /\ pc[w] = "links"
    /\ NextAdmitted(url[w], li[w]) > Len(LinksOf(url[w]))
    /\ TaskDone(w, "success")
    /\ UNCHANGED <<max_pages, q, seen, in_queue, dropped, pages_rows, put_count,
                   mainpc, manifest, failures>>
    /\ CrawlOnly

\* an exception while the fetched page is processed: except Exception, finally
Raise(w) ==
    /\ pc[w] \in {"row", "links"}
    /\ faults < MaxFaults
    /\ TaskDone(w, "error")
    /\ UNCHANGED <<max_pages, q, seen, in_queue, dropped, pages_rows, put_count,
                   mainpc, manifest, failures>>
    /\ CrawlOnly

\* a mutant of Package: the files are closed without q.join()
Package_NoJoin ==
    /\ mainpc = "join"
    /\ mainpc' = "packaged"
    /\ manifest' = Cardinality(seen)
    /\ failures' = dropped
    /\ UNCHANGED <<max_pages, q, unfinished, seen, in_queue, dropped, pages_rows, pc,
                   url, li, put_count, outcome, faults>>
    /\ CrawlOnly

\* q.join() returns; the sinks are closed and the archive is packaged
Package ==
    /\ mainpc = "join"
    /\ unfinished = 0
    /\ mainpc' = "packaged"
    /\ manifest' = Cardinality(seen)
    /\ failures' = dropped
    /\ UNCHANGED <<max_pages, q, unfinished, seen, in_queue, dropped, pages_rows, pc,
                   url, li, put_count, outcome, faults>>
    /\ CrawlOnly

(***************************************************************************)
(* The value each group of variables keeps in the specifications that do   *)
(* not use it.                                                             *)
(***************************************************************************)
NoCaller == 0

NoRetryAfter == [form |-> "absent", secs |-> 0]

NoResponse ==
    [kind |-> "none", status |-> 0, html |-> FALSE, marker |-> FALSE,
     ra |-> NoRetryAfter]

CrawlIdle ==
    /\ max_pages = 1
    /\ q = <<>>
    /\ unfinished = 0
    /\ seen = {}
    /\ in_queue = {}
    /\ dropped = <<>>
    /\ pages_rows = [u \in SiteUrls |-> 0]
    /\ pc = [w \in Workers |-> "get"]
    /\ url = [w \in Workers |-> NoUrl]
    /\ li = [w \in Workers |-> 0]
    /\ put_count = [u \in AllUrls |-> 0]
    /\ outcome = [u \in SiteUrls |-> {}]
    /\ faults = 0
    /\ mainpc = "join"
    /\ manifest = 0
    /\ failures = <<>>

LimIdle ==
    /\ lkind = "crawler"
    /\ lclock = 0
    /\ lnext = 0
    /\ lholder = NoCaller
    /\ lnow = 0
    /\ grants = <<>>

MirIdle ==
    /\ mmap = [w \in Workers |-> {}]
    /\ mpc = [w \in Workers |-> "idle"]
    /\ mi = [w \in Workers |-> 0]
    /\ mj = [w \in Workers |-> 0]
    /\ mpages = 0
    /\ assets_rows = <<>>
    /\ fetch_count = <<>>
    /\ mrefs = <<>>
    /\ mfiles = {}
    /\ mlast = <<>>

EntIdle ==
    /\ emode = "live"
    /\ ets = FALSE
    /\ eseed = SeedUrl
    /\ econc = 0
    /\ epc = "parse"
    /\ elookup = "none"

AdmIdle ==
    /\ amode = "live"
    /\ aallow = FALSE
    /\ aseed = [scheme |-> "", host |-> <<>>, path |-> <<>>, query |-> ""]
    /\ aq = <<>>
    /\ ain_queue = {}
    /\ aseen = {}
    /\ afetched = {}
    /\ acur = aseed
    /\ anl = 0
    /\ alast = [raw |-> [form |-> "none", u |-> aseed], put |-> FALSE]

WbIdle ==
    /\ wts = ""
    /\ wu = [scheme |-> "", host |-> <<>>, path |-> <<>>, query |-> ""]
    /\ wpc = "start"
    /\ wout = wu

ProbeIdle ==
    /\ pcache = <<>>
    /\ prows = <<>>
    /\ ppc = "pick"
    /\ pimg = 0
    /\ ptrace = <<>>
    /\ phead = <<>>

CssIdle ==
    /\ scss = [scheme |-> "", host |-> <<>>, path |-> <<>>, query |-> ""]
    /\ stoken = [kind |-> "data", u |-> scss]
    /\ smap = {}
    /\ spc = "start"
    /\ sout = [rewritten |-> FALSE, path |-> <<>>]

NormIdle ==
    /\ ncanon = <<>>
    /\ nu = [scheme |-> "", host |-> <<>>, path |-> <<>>, query |-> ""]
    /\ npc = "start"
    /\ nonce = nu
    /\ ntwice = nu

RunsIdle ==
    /\ rmode = <<>>
    /\ rpc = <<>>
    /\ rsteps = <<>>
    /\ lim_writer = <<>>
    /\ cache_writer = <<>>
    /\ rreads = {}

LockIdle ==
    /\ lstep = <<>>
    /\ lphase = <<>>
    /\ lheld = <<>>
    /\ lowner = <<>>

CacheIdle ==
    /\ ccache = <<>>
    /\ cpc = <<>>
    /\ cimg = <<>>
    /\ cres = <<>>
    /\ ctags = <<>>
    /\ cprobes = <<>>
    /\ chits = <<>>

PathIdle ==
    /\ tfiles = {}
    /\ tmirrored = <<>>

FetIdle ==
    /\ ffetcher = "worker"
    /\ fpc = "wait"
    /\ fattempt = 0
    /\ fhops = 0
    /\ fprev = NoResponse
    /\ fsleep = 0
    /\ fdelay = 0
    /\ fwaits = 0
    /\ fsends = 0
    /\ fdrops = <<>>
    /\ fseen = FALSE
    /\ frows = 0
    /\ fputs = 0
    /\ fcur = 0
    /\ fchain = <<>>
    /\ fattached = <<"none">>

Next ==
    \/ \E w \in Workers : Get(w)
    \/ \E w \in Workers : Exit(w)
    \/ \E w \in Workers : \E r \in CrawlResponses : Fetch(w, r)
    \/ \E w \in Workers : WriteRow(w)
    \/ \E w \in Workers : CheckLink(w)
    \/ \E w \in Workers : PutLink(w)
    \/ \E w \in Workers : AddInQueue(w)
    \/ \E w \in Workers : FinishPage(w)
    \/ \E w \in Workers : Raise(w)
    \/ Package

Init == CrawlInit /\ LimIdle /\ MirIdle /\ EntIdle /\ FetIdle /\ AdmIdle /\ WbIdle /\ ProbeIdle /\ CssIdle /\ NormIdle /\ RunsIdle /\ LockIdle /\ CacheIdle /\ PathIdle

Spec == Init /\ [][Next]_vars

\* the steps of worker w
WorkerStep(w) ==
    \/ Get(w) \/ Exit(w)
    \/ \E r \in CrawlResponses : Fetch(w, r)
    \/ WriteRow(w) \/ CheckLink(w) \/ PutLink(w) \/ AddInQueue(w)
    \/ FinishPage(w) \/ Raise(w)

\* every fetch returns, every thread that can run does run, and q.join()
\* returns once it can
SpecFair ==
    /\ Init /\ [][Next]_vars
    /\ \A w \in Workers : WF_vars(WorkerStep(w))
    /\ WF_vars(Package)

(***************************************************************************)
(* RateLimiter (src/crawler.py 43-53, src/mirror_assets.py 17-28).         *)
(* Time is counted in ticks; the interval 1/rps is Interval ticks.  The    *)
(* instance of crawler.py starts with _next at the clock of its            *)
(* construction, the one of mirror_assets.py with _next = 0.0 while its    *)
(* clock, time.time(), is far past one interval.  All workers of a run     *)
(* share one instance (page_rate, img_rate, asset_rate).                   *)
(***************************************************************************)
Interval == 2
MaxTime == 5
NumCallers == 2
MaxCalls == 3

Callers == 1..NumCallers

\* the clock at the construction of the limiter
StartClock == Interval

LimStart ==
    /\ lkind \in {"crawler", "mirror"}
    /\ lclock = StartClock
    /\ lnext = IF lkind = "crawler" THEN lclock ELSE 0
    /\ lholder = NoCaller
    /\ lnow = 0
    /\ grants = <<>>

\* time passes
LTick ==
    /\ lclock < StartClock + MaxTime
    /\ lclock' = lclock + 1
    /\ UNCHANGED <<lkind, lnext, lholder, lnow, grants>>
    /\ LimiterOnly

\* with self._lock: now = time.monotonic()      (now = now_fn() in the mirror)
LAcquire(c) ==
    /\ lholder = NoCaller
    /\ Len(grants) < MaxCalls
    /\ lholder' = c
    /\ lnow' = lclock
    /\ UNCHANGED <<lkind, lclock, lnext, grants>>
    /\ LimiterOnly

\* if now < self._next: time.sleep(self._next - now)
\* self._next = max(self._next + self.interval, <clock>); the lock is released
\* and wait() returns: the call is granted
LGrant(c) ==
    /\ lholder = c
    /\ lnow < lnext => lclock >= lnow + (lnext - lnow)
    /\ lnext' = Max(lnext + Interval, lclock)
    /\ grants' = Append(grants, lclock)
    /\ lholder' = NoCaller
    /\ UNCHANGED <<lkind, lclock, lnow>>
    /\ LimiterOnly

LimNext ==
    \/ LTick
    \/ \E c \in Callers : LAcquire(c)
    \/ \E c \in Callers : LGrant(c)

LimInit == LimStart /\ CrawlIdle /\ MirIdle /\ EntIdle /\ FetIdle /\ AdmIdle /\ WbIdle /\ ProbeIdle /\ CssIdle /\ NormIdle /\ RunsIdle /\ LockIdle /\ CacheIdle /\ PathIdle

SpecLimiter == LimInit /\ [][LimNext]_vars

(***************************************************************************)
(* AssetMirror (src/mirror_assets.py 56-239).  Every worker of             *)
(* crawl_to_zip builds its own AssetMirror (src/crawler.py 465-471), so    *)
(* every worker has its own self.map; the limiter, the output tree and     *)
(* assets.csv are shared.  Asset StyleSheet is a stylesheet whose          *)
(* url(...) tokens name itself and every other asset; a page references the *)
(* stylesheet, an asset of another host, every other asset and the last    *)
(* asset once more, and an inline style names the last asset again; the    *)
(* last reference of the page is the first candidate of the srcset of an   *)
(* <img>, which names the asset of the other host.                         *)
(***************************************************************************)
NumAssets == 2
MaxMirrorPages == 2

Assets == 1..NumAssets
StyleSheet == 1
ExternalAsset == NumAssets + 1

\* handle(): is_css or u.endswith(".css")
IsCss(a) == a = StyleSheet

\* AssetMirror._allowed with MIRROR_EXTERNAL_ASSETS = False
Allowed(a) == a # ExternalAsset

\* the references in the tag attributes of a page, in the order
\* mirror_and_rewrite takes them
PageRefs ==
    <<StyleSheet, ExternalAsset>> \o SetToSeq(Assets \ {StyleSheet})
        \o <<NumAssets>> \o <<ExternalAsset>>

\* whether reference k is handed to handle() (href, src, poster) or is the
\* first srcset candidate, which goes to _mirror_binary directly
ViaHandle(k) == k < Len(PageRefs)

\* the url(...) tokens CSS_URL_RE finds in the stylesheet: the stylesheet
\* itself, every other asset, the asset of the other host
CssRefs == <<StyleSheet>> \o SetToSeq(Assets \ {StyleSheet}) \o <<ExternalAsset>>

\* a mutant of NextToken: a stylesheet fetched for a token is scanned in its
\* turn
NextToken_Rescan(c, j) == IF IsCss(c) THEN 1 ELSE j + 1

\* CSS_URL_RE.sub goes on to the next match, whatever asset repl has fetched
NextToken(c, j) == j + 1

\* the url(...) tokens of the style attributes of a page
InlineRefs == <<NumAssets>>

\* the text _rewrite_css is working on at place p
TokensAt(p) == IF p \in {"css", "cfetch"} THEN CssRefs ELSE InlineRefs

\* what self._fetch returns: the status (0 when the request raised) and
\* whether the body is not empty; the body is kept only for a 200
MirrorAnswer(status, body) == [status |-> status, body |-> body /\ status = 200]

NoMirrorAnswer == MirrorAnswer(0, FALSE)

StoredAnswer == MirrorAnswer(200, TRUE)

MirrorAnswers ==
    {StoredAnswer, MirrorAnswer(200, FALSE), MirrorAnswer(404, TRUE), NoMirrorAnswer}

\* status == 200 and body
FetchOk(r) == r.status = 200 /\ r.body

\* a row of assets.csv: local_path is the asset when it was stored, else ""
AssetRow(a, r) == <<a, r.status, IF FetchOk(r) THEN a ELSE 0>>

\* how the page writes each of its references: relative to the page, or in
\* full
TagsWritten ==
    [k \in 1..Len(PageRefs) |-> IF k % 2 = 1 THEN "relative" ELSE "absolute"]

StylesWritten == <<"relative">>

\* the references of a parsed page before mirror_and_rewrite: every tag
\* attribute and every url(...) of a style attribute as the page wrote it;
\* "local" is the relative path of the mirrored file, "abs" the absolute URL
\* of the asset
FreshRefs ==
    [tags |-> [k \in 1..Len(PageRefs) |-> "written"],
     styles |-> [k \in 1..Len(InlineRefs) |-> "written"]]

MirStart ==
    /\ mmap = [w \in Workers |-> {}]
    /\ mpc = [w \in Workers |-> "idle"]
    /\ mi = [w \in Workers |-> 0]
    /\ mj = [w \in Workers |-> 0]
    /\ mpages = 0
    /\ assets_rows = <<>>
    /\ fetch_count = [a \in Assets \cup {ExternalAsset} |-> 0]
    /\ mrefs = [w \in Workers |-> FreshRefs]
    /\ mfiles = {}
    /\ mlast = [w \in Workers |-> NoMirrorAnswer]

\* the worker calls mirror.mirror_and_rewrite for a page it fetched
MStart(w) ==
    /\ mpc[w] = "idle"
    /\ mpages < MaxMirrorPages
    /\ mpages' = mpages + 1
    /\ mpc' = [mpc EXCEPT ![w] = "ref"]
    /\ mi' = [mi EXCEPT ![w] = 1]
    /\ mrefs' = [mrefs EXCEPT ![w] = FreshRefs]
    /\ UNCHANGED <<mmap, mj, assets_rows, fetch_count, mfiles, mlast>>
    /\ MirrorOnly

\* handle() or the srcset branch, then _mirror_css / _mirror_binary up to the
\* lookup in self.map
MHandle(w) ==
    /\ mpc[w] = "ref"
    /\ mi[w] <= Len(PageRefs)
    /\ LET a == PageRefs[mi[w]]
           skip == ViaHandle(mi[w]) /\ ~Allowed(a)
       IN  IF skip \/ a \in mmap[w]
           THEN /\ mi' = [mi EXCEPT ![w] = @ + 1]
                /\ mpc' = mpc
                /\ mrefs' = IF ~skip
                             THEN [mrefs EXCEPT ![w].tags[mi[w]] = "local"]
                             ELSE mrefs
           ELSE /\ mpc' = [mpc EXCEPT ![w] = "fetch"]
                /\ mi' = mi
                /\ mrefs' = mrefs
    /\ UNCHANGED <<mmap, mj, mpages, assets_rows, fetch_count, mfiles, mlast>>
    /\ MirrorOnly

\* a mutant of Written: the file is not on disk when the map entry is made
Written_Later(files, a) == files

\* _ensure_parent(abs_path); with open(abs_path, "wb") as f: f.write(body):
\* the file of asset a is among the files below outroot
Written(files, a) == files \cup {a}

\* self._fetch(url) of _mirror_css / _mirror_binary and what follows it: a
\* binary is written, logged and entered in self.map; a stylesheet goes to
\* _rewrite_css first; a failed fetch is logged and not entered in self.map
MFetch(w, r) ==
    /\ mpc[w] = "fetch"
    /\ mlast' = [mlast EXCEPT ![w] = r]
    /\ LET a == PageRefs[mi[w]]
       IN  /\ fetch_count' = [fetch_count EXCEPT ![a] = @ + 1]
           /\ IF FetchOk(r) /\ IsCss(a)
              THEN /\ mpc' = [mpc EXCEPT ![w] = "css"]
                   /\ mj' = [mj EXCEPT ![w] = 1]
                   /\ UNCHANGED <<mmap, mi, assets_rows, mrefs, mfiles>>
              ELSE /\ mpc' = [mpc EXCEPT ![w] = "ref"]
                   /\ mi' = [mi EXCEPT ![w] = @ + 1]
                   /\ mmap' = IF FetchOk(r) THEN [mmap EXCEPT ![w] = @ \cup {a}]
                              ELSE mmap
                   /\ mfiles' = IF FetchOk(r) THEN Written(mfiles, a) ELSE mfiles
                   /\ assets_rows' = Append(assets_rows, AssetRow(a, r))
                   /\ mrefs' = [mrefs EXCEPT ![w].tags[mi[w]] =
                                    IF FetchOk(r) THEN "local" ELSE "abs"]
                   /\ mj' = mj
    /\ UNCHANGED mpages
    /\ MirrorOnly

\* _rewrite_css.repl for one url(...) token, up to known = self.map.get(abs_u)
MCssUrl(w) ==
    /\ mpc[w] \in {"css", "inline"}
    /\ mj[w] <= Len(TokensAt(mpc[w]))
    /\ LET c == TokensAt(mpc[w])[mj[w]]
       IN  IF ~Allowed(c) \/ c \in mmap[w]
           THEN /\ mj' = [mj EXCEPT ![w] = @ + 1]
                /\ mpc' = mpc
                /\ mrefs' = IF Allowed(c) /\ mpc[w] = "inline"
                             THEN [mrefs EXCEPT ![w].styles[mj[w]] = "local"]
                             ELSE mrefs
           ELSE /\ mpc' = [mpc EXCEPT ![w] = IF @ = "css" THEN "cfetch"
                                              ELSE "ifetch"]
                /\ mj' = mj
                /\ mrefs' = mrefs
    /\ UNCHANGED <<mmap, mi, mpages, assets_rows, fetch_count, mfiles, mlast>>
    /\ MirrorOnly

\* _rewrite_css.repl: self._fetch(abs_u) and what follows it
MCssFetch(w, r) ==
    /\ mpc[w] \in {"cfetch", "ifetch"}
    /\ mlast' = [mlast EXCEPT ![w] = r]
    /\ LET c == TokensAt(mpc[w])[mj[w]]
       IN  /\ fetch_count' = [fetch_count EXCEPT ![c] = @ + 1]
           /\ mmap' = IF FetchOk(r) THEN [mmap EXCEPT ![w] = @ \cup {c}] ELSE mmap
           /\ mfiles' = IF FetchOk(r) THEN Written(mfiles, c) ELSE mfiles
           /\ assets_rows' = Append(assets_rows, AssetRow(c, r))
           /\ mrefs' = IF FetchOk(r) /\ mpc[w] = "ifetch"
                        THEN [mrefs EXCEPT ![w].styles[mj[w]] = "local"]
                        ELSE mrefs
    /\ mj' = [mj EXCEPT ![w] = NextToken(TokensAt(mpc[w])[mj[w]], @)]
    /\ mpc' = [mpc EXCEPT ![w] = IF @ = "cfetch" THEN "css" ELSE "inline"]
    /\ UNCHANGED <<mi, mpages>>
    /\ MirrorOnly

\* _mirror_css after _rewrite_css: the stylesheet is written, logged and
\* entered in self.map
MCssWrite(w) ==
    /\ mpc[w] = "css"
    /\ mj[w] > Len(CssRefs)
    /\ LET a == PageRefs[mi[w]]
       IN  /\ mmap' = [mmap EXCEPT ![w] = @ \cup {a}]
           /\ mfiles' = Written(mfiles, a)
           /\ assets_rows' = Append(assets_rows, AssetRow(a, StoredAnswer))
    /\ mrefs' = [mrefs EXCEPT ![w].tags[mi[w]] = "local"]
    /\ mi' = [mi EXCEPT ![w] = @ + 1]
    /\ mpc' = [mpc EXCEPT ![w] = "ref"]
    /\ UNCHANGED <<mj, mpages, fetch_count, mlast>>
    /\ MirrorOnly

\* mirror_and_rewrite goes from the tags to the inline styles
MInline(w) ==
    /\ mpc[w] = "ref"
    /\ mi[w] > Len(PageRefs)
    /\ mpc' = [mpc EXCEPT ![w] = "inline"]
    /\ mj' = [mj EXCEPT ![w] = 1]
    /\ UNCHANGED <<mmap, mi, mpages, assets_rows, fetch_count, mrefs, mfiles, mlast>>
    /\ MirrorOnly

\* mirror_and_rewrite returns
MReturn(w) ==
    /\ mpc[w] = "inline"
    /\ mj[w] > Len(InlineRefs)
    /\ mpc' = [mpc EXCEPT ![w] = "idle"]
    /\ UNCHANGED <<mmap, mi, mj, mpages, assets_rows, fetch_count, mrefs, mfiles, mlast>>
    /\ MirrorOnly

\* the pages of a run, every fetch stored or refused by the network
MirNext ==
    \/ \E w \in Workers : MStart(w)
    \/ \E w \in Workers : MHandle(w)
    \/ \E w \in Workers : \E r \in {StoredAnswer, NoMirrorAnswer} : MFetch(w, r)
    \/ \E w \in Workers : MCssUrl(w)
    \/ \E w \in Workers : \E r \in {StoredAnswer, NoMirrorAnswer} : MCssFetch(w, r)
    \/ \E w \in Workers : MCssWrite(w)
    \/ \E w \in Workers : MInline(w)
    \/ \E w \in Workers : MReturn(w)

\* mirror_and_rewrite for the first page of the run
MStartFirst(w) == mpages = 0 /\ MStart(w)

\* the first page of a run, with every answer a fetch can get
MirPageNext ==
    \/ \E w \in Workers : MStartFirst(w)
    \/ \E w \in Workers : MHandle(w)
    \/ \E w \in Workers : \E r \in MirrorAnswers : MFetch(w, r)
    \/ \E w \in Workers : MCssUrl(w)
    \/ \E w \in Workers : \E r \in MirrorAnswers : MCssFetch(w, r)
    \/ \E w \in Workers : MCssWrite(w)
    \/ \E w \in Workers : MInline(w)
    \/ \E w \in Workers : MReturn(w)

MirInit == MirStart /\ CrawlIdle /\ LimIdle /\ EntIdle /\ FetIdle /\ AdmIdle /\ WbIdle /\ ProbeIdle /\ CssIdle /\ NormIdle /\ RunsIdle /\ LockIdle /\ CacheIdle /\ PathIdle

SpecMirror == MirInit /\ [][MirNext]_vars

SpecMirrorPage == MirInit /\ [][MirPageNext]_vars

\* the steps of worker w inside mirror_and_rewrite
MirStep(w) ==
    \/ MStartFirst(w)
    \/ MHandle(w)
    \/ \E r \in MirrorAnswers : MFetch(w, r)
    \/ MCssUrl(w)
    \/ \E r \in MirrorAnswers : MCssFetch(w, r)
    \/ MCssWrite(w)
    \/ MInline(w)
    \/ MReturn(w)

\* every request returns (timeout=20) and the thread is scheduled
SpecMirrorPageFair ==
    MirInit /\ [][MirPageNext]_vars /\ \A w \in Workers : WF_vars(MirStep(w))

(***************************************************************************)
(* crawl_to_zip from its call to its return (src/crawler.py 393-426,       *)
(* 637-670) with _wb_latest_timestamp (187-198).  The run of the worker    *)
(* pool between the seed gate and the packaging is the specification Spec  *)
(* above; here it is one step that ends when q.join() returns, which       *)
(* needs a worker thread to take the seed and call task_done.              *)
(***************************************************************************)
MaxConcurrency == 3

\* a start_url urlparse rejects ("http://[example.com": Invalid IPv6 URL)
MalformedUrl == NumUrls + 3

Modes == {"live", "wayback", "mirror"}

EntStart ==
    /\ emode \in Modes
    /\ ets \in BOOLEAN
    /\ eseed \in {SeedUrl, DeniedUrl, MalformedUrl}
    /\ econc \in 0..MaxConcurrency
    /\ epc = "parse"
    /\ elookup = "none"

\* parsed_root = urllib.parse.urlparse(...): ValueError for a malformed URL
EParse ==
    /\ epc = "parse"
    /\ epc' = IF eseed = MalformedUrl THEN "raised" ELSE "mode"
    /\ UNCHANGED <<emode, ets, eseed, econc, elookup>>
    /\ EntryOnly

\* if mode not in ("live", "wayback"): raise ValueError
\* if mode == "wayback": ts = wayback_timestamp or _wb_latest_timestamp(...)
ECheckMode ==
    /\ epc = "mode"
    /\ epc' = IF emode \notin {"live", "wayback"} THEN "raised"
              ELSE IF emode = "wayback" /\ ~ets THEN "cdx1"
              ELSE "setup"
    /\ UNCHANGED <<emode, ets, eseed, econc, elookup>>
    /\ EntryOnly

\* _wb_latest_timestamp: the first requests.get and r.raise_for_status()
ECdxFirst(res) ==
    /\ epc = "cdx1"
    /\ IF res = "ok"
       THEN /\ epc' = "cdx2"
            /\ elookup' = elookup
       ELSE /\ epc' = "raised"
            /\ elookup' = "failed"
    /\ UNCHANGED <<emode, ets, eseed, econc>>
    /\ EntryOnly

\* a mutant of ECdxSecond: a lookup without snapshot goes on without timestamp
ECdxSecond_NoRaise(res) ==
    /\ epc = "cdx2"
    /\ epc' = IF res = "error" THEN "raised" ELSE "setup"
    /\ elookup' = IF res = "error" THEN "failed"
                  ELSE IF res = "empty" THEN "empty" ELSE "found"
    /\ UNCHANGED <<emode, ets, eseed, econc>>
    /\ EntryOnly

\* _wb_latest_timestamp: the second requests.get, r.raise_for_status(),
\* rows = r.json()[1:]; if not rows: raise RuntimeError; return rows[-1][0]
ECdxSecond(res) ==
    /\ epc = "cdx2"
    /\ epc' = IF res = "rows" THEN "setup" ELSE "raised"
    /\ elookup' = IF res = "error" THEN "failed"
                  ELSE IF res = "empty" THEN "empty" ELSE "found"
    /\ UNCHANGED <<emode, ets, eseed, econc>>
    /\ EntryOnly

\* the wayback settings (concurrency = min(concurrency, 2)) and the seed gate:
\* if ONLY_ENGLISH and not _english_allowed(seed_url, ...): raise ValueError
EGate ==
    /\ epc = "setup"
    /\ econc' = IF emode = "wayback" THEN Min(econc, 2) ELSE econc
    /\ epc' = IF EnglishAllowed(eseed) THEN "run" ELSE "raised"
    /\ UNCHANGED <<emode, ets, eseed, elookup>>
    /\ EntryOnly

\* the threads are started, q.join() returns, the archive is packaged and
\* returned; with no thread the seed is never taken and q.join() blocks
ERun ==
    /\ epc = "run"
    /\ epc' = IF econc >= 1 THEN "returned" ELSE "blocked"
    /\ UNCHANGED <<emode, ets, eseed, econc, elookup>>
    /\ EntryOnly

EntNext ==
    \/ EParse
    \/ ECheckMode
    \/ \E res \in {"ok", "error"} : ECdxFirst(res)
    \/ \E res \in {"rows", "empty", "error"} : ECdxSecond(res)
    \/ EGate
    \/ ERun

EntInit == EntStart /\ CrawlIdle /\ LimIdle /\ MirIdle /\ FetIdle /\ AdmIdle /\ WbIdle /\ ProbeIdle /\ CssIdle /\ NormIdle /\ RunsIdle /\ LockIdle /\ CacheIdle /\ PathIdle

SpecEntry == EntInit /\ [][EntNext]_vars

(***************************************************************************)
(* The retry loop for one URL: crawl_to_zip.worker (src/crawler.py         *)
(* 483-535) and fetch (src/crawler_excel.py 140-180), the fetcher of       *)
(* crawl_pages.  Sleeps and delays are counted in tenths of a second.      *)
(***************************************************************************)
MaxHops == 2
\* the <a href> links read from one page
MaxLinksPerPage == 2
CAP == 30
EXCEL_MAX_RETRIES == 4
EXCEL_BACKOFF_CAP == 8

Tenths(secs) == secs * 10

\* the Retry-After header: absent, decimal digits, an HTTP-date so many
\* seconds ahead, or anything else
RetryAfters ==
    {NoRetryAfter, [form |-> "garbage", secs |-> 0], [form |-> "date", secs |-> 2]}
        \cup {[form |-> "digits", secs |-> n] : n \in {0, 2, 45}}

\* a mutant of AnswerKind: the marker is looked for before the content type
AnswerKind_MarkerFirst(status, html, marker) ==
    IF status \in {429, 503} THEN "throttle"
    ELSE IF status = 200 /\ marker THEN "soft"
    ELSE IF status # 200 \/ ~html THEN "other"
    ELSE "html"

\* the branch of the worker's loop body an answer takes, in the order of the
\* tests of lines 507, 520 and 525: 429 and 503 first, then the status and
\* the content type, then the marker in the body
AnswerKind(status, html, marker) ==
    IF status \in {429, 503} THEN "throttle"
    ELSE IF status # 200 \/ ~html THEN "other"
    ELSE IF marker THEN "soft"
    ELSE "html"

\* an answer: its status, whether its content type holds text/html, whether
\* its body carries a soft-block marker, and its Retry-After header
Answer(status, html, marker, ra) ==
    [kind |-> AnswerKind(status, html, marker), status |-> status,
     html |-> html, marker |-> marker, ra |-> ra]

\* the exceptions of session.get, and a 301 with and without Location as
\* crawler_excel.fetch sees it
NoAnswer(kind, status) ==
    [kind |-> kind, status |-> status, html |-> FALSE, marker |-> FALSE,
     ra |-> NoRetryAfter]

FetchResponses ==
    {NoAnswer(k, 0) : k \in {"net", "exc"}}
        \cup {NoAnswer(k, 301) : k \in {"redirect", "noloc"}}
        \cup {Answer(200, TRUE, FALSE, NoRetryAfter),
              Answer(200, FALSE, FALSE, NoRetryAfter),
              Answer(200, FALSE, TRUE, NoRetryAfter),
              Answer(404, TRUE, FALSE, NoRetryAfter)}
        \cup {Answer(200, TRUE, TRUE, ra) : ra \in RetryAfters}
        \cup {Answer(st, TRUE, FALSE, ra) : st \in {429, 503}, ra \in RetryAfters}

\* what the loop of a fetcher can see: the session of the worker follows
\* redirects itself (allow_redirects=True)
ResponsesOf(f) ==
    IF f = "worker"
    THEN {r \in FetchResponses : r.kind \notin {"redirect", "noloc"}}
    ELSE FetchResponses

\* random.uniform(0, 0.5) of the worker, random.uniform(0.2, 0.8) of fetch:
\* the ends of the range
JitterOf(f) == IF f = "worker" THEN {0, 5} ELSE {2, 8}

\* what the limiter before an attempt adds to the delay: page_rate.wait(),
\* _sleep_for_rate_limit
PaceWaits == {0, 3}

\* int(BACKOFF_BASE ** (attempt - 1)) with BACKOFF_BASE = 1.5
WorkerBackoff(a) == (3 ^ (a - 1)) \div (2 ^ (a - 1))

\* sleep_for of the worker, in tenths of a second
WorkerSleep(a, r, j) ==
    IF r.kind = "throttle" /\ r.ra.form = "digits"
    THEN Tenths(Min(r.ra.secs, CAP))
    ELSE Min(Tenths(WorkerBackoff(a)) + j, Tenths(CAP))

\* _parse_retry_after, in seconds; -1 stands for None
ParseRetryAfter(ra) ==
    IF ra.form \in {"digits", "date"} THEN Max(0, ra.secs) ELSE -1

\* wait of fetch, in tenths of a second
ExcelSleep(tries, r, j) ==
    LET retry_after == ParseRetryAfter(r.ra)
    IN  (IF retry_after # -1
         THEN Max(5, Tenths(retry_after))
         ELSE Min(Tenths(EXCEL_BACKOFF_CAP), Tenths(2 ^ (tries - 1)))) + j

\* the URLs a Location header can lead to; the URL asked for is among them
NumFetchUrls == 2

FetchUrls == 1..NumFetchUrls

RequestedUrl == 1

\* the response before fetch() has set _redirect_chain on it
NoChain == <<"none">>

\* a mutant of Hop: the triple is written from the URL fetch() was called with
Hop_FromStart(status, cur, nxt) == <<status, RequestedUrl, nxt>>

\* chain.append((r.status_code, cur, nxt))
Hop(status, cur, nxt) == <<status, cur, nxt>>

FetStart ==
    /\ ffetcher \in {"worker", "fetch"}
    /\ fpc = "wait"
    /\ fattempt = 0
    /\ fhops = 0
    /\ fprev = NoResponse
    /\ fsleep = 0
    /\ fdelay = 0
    /\ fwaits = 0
    /\ fsends = 0
    /\ fdrops = <<>>
    /\ fseen = FALSE
    /\ frows = 0
    /\ fputs = 0
    /\ fcur = RequestedUrl
    /\ fchain = <<>>
    /\ fattached = NoChain

\* a mutant of FAttempt: the limiter is asked before the first attempt only
FAttempt_WaitOnce(w) ==
    /\ fpc = "wait"
    /\ fpc' = "sent"
    /\ fattempt' = IF ffetcher = "worker" THEN fattempt + 1 ELSE fattempt
    /\ fdelay' = fsleep + w
    /\ fwaits' = IF fsends = 0 THEN fwaits + 1 ELSE fwaits
    /\ fsends' = fsends + 1
    /\ UNCHANGED <<ffetcher, fhops, fprev, fsleep, fdrops, fseen, frows, fputs,
                   fcur, fchain, fattached>>
    /\ FetchOnly

\* the top of the loop: attempt += 1 (worker), the limiter, the request is sent
FAttempt(w) ==
    /\ fpc = "wait"
    /\ fpc' = "sent"
    /\ fattempt' = IF ffetcher = "worker" THEN fattempt + 1 ELSE fattempt
    /\ fdelay' = fsleep + w
    /\ fwaits' = fwaits + 1
    /\ fsends' = fsends + 1
    /\ UNCHANGED <<ffetcher, fhops, fprev, fsleep, fdrops, fseen, frows, fputs,
                   fcur, fchain, fattached>>
    /\ FetchOnly

\* the reason of the DropRecord for the failure r
FetchDropReason(r) ==
    IF r.kind = "net" THEN "net-timeout after retries"
    ELSE IF r.kind = "throttle"
           THEN (IF r.status = 429 THEN "429 after retries"
                 ELSE "503 after retries")
    ELSE "429 body after retries"

\* a mutant of MayRetry: one attempt more
MayRetry_OneMore(attempt) == attempt <= MAX_RETRIES

\* if attempt < MAX_RETRIES: time.sleep(sleep_for); continue
MayRetry(attempt) == attempt < MAX_RETRIES

\* crawl_to_zip.worker: the rest of the loop body for the response r.  An
\* exception of session.get that is not one of the three network errors
\* leaves the loop through the except clause of the worker: the processing
\* of the URL stops and nothing is recorded, as after the break of a
\* response that is not a 200 HTML page.
WorkerRespond(r, j) ==
    /\ ffetcher = "worker"
    /\ fpc = "sent"
    /\ fprev' = r
    /\ IF r.kind \in {"net", "throttle", "soft"}
       THEN /\ IF MayRetry(fattempt)
                 THEN /\ fsleep' = WorkerSleep(fattempt, r, j)
                      /\ fpc' = "wait"
                      /\ fdrops' = fdrops
                 ELSE /\ fsleep' = 0
                      /\ fpc' = "dropped"
                      /\ fdrops' = Append(fdrops, FetchDropReason(r))
            /\ UNCHANGED <<fseen, frows, fputs>>
       ELSE IF r.kind = "html"
       THEN \* lines 535-590: seen.add(url), the row of the page, its links
            /\ fsleep' = 0
            /\ fpc' = "success"
            /\ fdrops' = fdrops
            /\ fseen' = TRUE
            /\ frows' = frows + 1
            /\ \E n \in 0..MaxLinksPerPage : fputs' = fputs + n
       ELSE \* the break of line 523, or the except clause of line 632
            /\ fsleep' = 0
            /\ fpc' = "abort"
            /\ UNCHANGED <<fdrops, fseen, frows, fputs>>
    /\ UNCHANGED <<ffetcher, fattempt, fhops, fdelay, fwaits, fsends, fcur, fchain,
                   fattached>>
    /\ FetchOnly

\* crawler_excel.fetch: the rest of the loop body for the response r; an
\* exception of SESSION.get is not caught
ExcelRespond(r, j) ==
    /\ ffetcher = "fetch"
    /\ fpc = "sent"
    /\ fprev' = r
    /\ IF r.kind \in {"net", "exc"}
       THEN /\ fpc' = "raised"
            /\ UNCHANGED <<fattempt, fhops, fsleep, fcur, fchain, fattached>>
       ELSE IF r.kind = "noloc" /\ fhops < MaxHops
       THEN /\ fpc' = "returned"
            /\ fsleep' = 0
            /\ fattached' = fchain
            /\ UNCHANGED <<fattempt, fhops, fcur, fchain>>
       ELSE IF r.kind = "redirect" /\ fhops < MaxHops
       THEN /\ fpc' = "wait"
            /\ fhops' = fhops + 1
            /\ fsleep' = 0
            /\ \E nxt \in FetchUrls :
                   /\ fchain' = Append(fchain, Hop(r.status, fcur, nxt))
                   /\ fcur' = nxt
            /\ UNCHANGED <<fattempt, fattached>>
       ELSE IF r.kind = "throttle"
       THEN /\ fattempt' = fattempt + 1
            /\ fsleep' = ExcelSleep(fattempt + 1, r, j)
            /\ fpc' = IF fattempt + 1 < EXCEL_MAX_RETRIES THEN "wait"
                      ELSE "returned"
            /\ fattached' = IF fattempt + 1 < EXCEL_MAX_RETRIES THEN fattached
                            ELSE fchain
            /\ UNCHANGED <<fhops, fcur, fchain>>
       ELSE /\ fpc' = "returned"
            /\ fattached' = fchain
            /\ UNCHANGED <<fattempt, fhops, fsleep, fcur, fchain>>
    /\ UNCHANGED <<ffetcher, fdelay, fwaits, fsends, fdrops, fseen, frows, fputs>>
    /\ FetchOnly

FetNext ==
    \/ \E w \in PaceWaits : FAttempt(w)
    \/ \E r \in ResponsesOf("worker") : \E j \in JitterOf("worker") :
           WorkerRespond(r, j)
    \/ \E r \in ResponsesOf("fetch") : \E j \in JitterOf("fetch") :
           ExcelRespond(r, j)

FetInit == FetStart /\ CrawlIdle /\ LimIdle /\ MirIdle /\ EntIdle /\ AdmIdle /\ WbIdle /\ ProbeIdle /\ CssIdle /\ NormIdle /\ RunsIdle /\ LockIdle /\ CacheIdle /\ PathIdle

SpecFetch == FetInit /\ [][FetNext]_vars

(***************************************************************************)
(* URLs as the string functions of src/crawler.py see them.  A URL is a    *)
(* record of its scheme, its host, its path and its query; a host is the   *)
(* sequence of its labels ("fr.example.com" is <<"fr","example","com">>),  *)
(* a path the sequence of its segments after the leading "/", a segment    *)
(* again a sequence of dot-separated parts, so that a URL written inside   *)
(* the path of a replay URL keeps its host ("/web/<ts>/http://a.b/x" has   *)
(* the segments "web", <ts>, "http:", "", "a.b", "x").  The empty segment  *)
(* is <<>>: the path "/" is one empty segment, the empty path is <<>>.     *)
(***************************************************************************)
Url(s, h, p, qs) == [scheme |-> s, host |-> h, path |-> p, query |-> qs]

Seg(s) == <<s>>

EmptySeg == <<>>

RootHost == <<"example", "com">>

ArchiveHost == <<"web", "archive", "org">>

\* a sample of LANG_DENY, and what re.split(r"[-_]", s)[0] gives for the
\* segments of the model
LANG_DENY == {"fr", "de"}

LangCore(s) == IF s = "fr-ca" THEN "fr" ELSE s

\* strip_www of _same_domain and _english_allowed
strip_www(h) == IF Len(h) > 1 /\ h[1] = "www" THEN Tail(h) ELSE h

\* h.endswith("." + r)
EndsWithDot(h, r) ==
    /\ Len(h) > Len(r)
    /\ SubSeq(h, Len(h) - Len(r) + 1, Len(h)) = r

\* a mutant of same_domain: every host passes
same_domain_any(u, root_netloc, allow_subdomains) == TRUE

\* _same_domain(url, root_netloc, allow_subdomains)
same_domain(u, root_netloc, allow_subdomains) ==
    LET host_s == strip_www(u.host)
        root_s == strip_www(root_netloc)
    IN  \/ host_s = root_s
        \/ allow_subdomains /\ EndsWithDot(host_s, root_s)

\* _first_path_segment(path): lstrip("/") drops the leading empty segments
RECURSIVE first_path_segment(_)
first_path_segment(p) ==
    IF p = <<>> THEN EmptySeg
    ELSE IF Head(p) = EmptySeg THEN first_path_segment(Tail(p))
    ELSE Head(p)

\* _looks_lang(seg): the language code of the segment, or "None"
looks_lang(seg) ==
    IF Len(seg) # 1 THEN "None"
    ELSE IF LangCore(seg[1]) \in LANG_DENY \cup {"en"} THEN LangCore(seg[1])
    ELSE "None"

\* _english_allowed(url, root_netloc) with ONLY_ENGLISH = True
english_allowed(u, root_netloc) ==
    LET host_base == strip_www(u.host)
        root_base == strip_www(root_netloc)
        lang == looks_lang(first_path_segment(u.path))
    IN  IF /\ host_base # <<>>
           /\ host_base[1] \in LANG_DENY
           /\ EndsWithDot(host_base, root_base)
        THEN FALSE
        ELSE lang = "None" \/ lang = "en"

\* urljoin drops the empty segments of a joined path, all but the last one
RECURSIVE DropInnerEmpty(_)
DropInnerEmpty(p) ==
    IF Len(p) <= 1 THEN p
    ELSE IF Head(p) = EmptySeg THEN DropInnerEmpty(Tail(p))
    ELSE <<Head(p)>> \o DropInnerEmpty(Tail(p))

\* the URL u written out inside a path: "http:", "", host, path...
Embed(u) == <<Seg(u.scheme \o ":"), EmptySeg, u.host>> \o u.path

\* _wb_url(ts, original_url) = urljoin(WAYBACK_BASE, f"{ts}/{original_url}")
wb_url(ts, u) ==
    Url("https", ArchiveHost,
        DropInnerEmpty(<<Seg("web"), Seg(ts)>> \o Embed(u)), u.query)

\* the replay URL as a replayed page writes it in a link, "//" kept
ReplayLink(ts, u) ==
    Url("https", ArchiveHost, <<Seg("web"), Seg(ts)>> \o Embed(u), u.query)

\* the path segments a timestamp of the archive can have: \d+[^/]*
Timestamps == {"20210101000000", "20210101000000im_", "19961231235959"}

\* the string orig of _wb_strip read as a URL: it has its scheme, or gets
\* "http://" put in front
ParseOrig(rest) ==
    IF /\ Len(rest) >= 2
       /\ rest[1] \in {Seg("http:"), Seg("https:")}
       /\ rest[2] = EmptySeg
    THEN Url(IF rest[1] = Seg("http:") THEN "http" ELSE "https",
             IF Len(rest) >= 3 THEN rest[3] ELSE <<>>,
             SubSeq(rest, 4, Len(rest)), "")
    ELSE Url("http", IF rest = <<>> THEN <<>> ELSE rest[1], Tail(rest), "")

\* _wb_strip(original_or_snapshot): the regular expression is matched on
\* u.path, which has neither the query nor the fragment
wb_strip(x) ==
    IF x.host # ArchiveHost THEN x
    ELSE IF /\ Len(x.path) >= 3
            /\ x.path[1] = Seg("web")
            /\ Len(x.path[2]) = 1
            /\ x.path[2][1] \in Timestamps
         THEN ParseOrig(SubSeq(x.path, 3, Len(x.path)))
         ELSE x

(***************************************************************************)
(* The admission of links in crawl_to_zip.worker (src/crawler.py 473-481,  *)
(* 571-590) on URLs with hosts and paths, for one worker: which URLs get   *)
(* on the frontier and which are fetched, in live and in wayback mode.     *)
(* root_netloc is the host of the seed (line 402).                         *)
(***************************************************************************)
NoPage == Url("", <<>>, <<>>, "")

\* the pages the links of the site lead to
About == Url("http", RootHost, <<Seg("about")>>, "")
FrPage == Url("http", RootHost, <<Seg("fr"), Seg("x")>>, "")
FrSub == Url("http", <<"fr">> \o RootHost, <<Seg("x")>>, "")
Blog == Url("http", <<"blog">> \o RootHost, <<Seg("x")>>, "q=1")
Evil == Url("http", <<"evil", "com">>, <<Seg("x")>>, "")
WwwAbout == Url("http", <<"www">> \o RootHost, <<Seg("about")>>, "")

Targets == {About, FrPage, FrSub, Blog, Evil, WwwAbout}

\* the start URLs of the runs of the model: the apex home page, the home page
\* of a language subdomain, a page under /fr/
Seeds ==
    {Url("http", RootHost, <<EmptySeg>>, ""),
     Url("http", <<"fr">> \o RootHost, <<EmptySeg>>, ""),
     Url("http", RootHost, <<Seg("fr"), EmptySeg>>, "")}

\* an <a href>: the URL it writes and how it writes it: in full
\* ("absolute"), from the host on ("protorel": //host/path), or from the path
\* on ("rooted": /path)
Href(form, u) == [form |-> form, u |-> u]

ReplayTs == "20210101000000"

RawLinks ==
    {Href("absolute", t) : t \in Targets}
        \cup {Href("absolute", ReplayLink(ReplayTs, t)) : t \in {About, FrSub, Blog, Evil}}
        \cup {Href("protorel", t) : t \in {Blog, ReplayLink(ReplayTs, About)}}
        \cup {Href("rooted", t) : t \in {About, FrPage, ReplayLink(ReplayTs, About)}}

\* _abs_url(raw, url) = urljoin(url, raw) for the three ways of writing
abs_url(raw, base) ==
    IF raw.form = "absolute" THEN raw.u
    ELSE IF raw.form = "protorel" THEN [raw.u EXCEPT !.scheme = base.scheme]
    ELSE Url(base.scheme, base.host, DropInnerEmpty(raw.u.path), raw.u.query)

\* link_url of the link loop (lines 573-582)
LinkUrl(raw, page, mode) ==
    IF mode = "wayback" /\ raw.form = "absolute" /\ raw.u.host = ArchiveHost
    THEN wb_strip(raw.u)
    ELSE IF /\ mode = "wayback"
            /\ raw.form = "rooted"
            /\ Len(raw.u.path) >= 2
            /\ raw.u.path[1] = Seg("web")
    THEN wb_strip(Url("https", ArchiveHost,
                      DropInnerEmpty(<<Seg("web")>> \o raw.u.path), raw.u.query))
    ELSE abs_url(raw, page)

NoHref == Href("none", NoPage)

AdmStart ==
    /\ amode \in {"live", "wayback"}
    /\ aallow \in BOOLEAN
    /\ aseed \in {s \in Seeds : english_allowed(s, s.host)}
    /\ aq = <<aseed>>
    /\ ain_queue = {aseed}
    /\ aseen = {}
    /\ afetched = {}
    /\ acur = NoPage
    /\ anl = 0
    /\ alast = [raw |-> NoHref, put |-> FALSE]

\* url = q.get(); the language gate of the worker; the fetch of the page,
\* which ends in seen.add(url) or without it
AGet(ok) ==
    /\ acur = NoPage
    /\ aq # <<>>
    /\ aq' = Tail(aq)
    /\ IF english_allowed(Head(aq), aseed.host)
       THEN /\ afetched' = afetched \cup {Head(aq)}
            /\ aseen' = IF ok THEN aseen \cup {Head(aq)} ELSE aseen
            /\ acur' = IF ok THEN Head(aq) ELSE NoPage
       ELSE UNCHANGED <<afetched, aseen, acur>>
    /\ anl' = 0
    /\ alast' = [raw |-> NoHref, put |-> FALSE]
    /\ UNCHANGED <<amode, aallow, aseed, ain_queue>>
    /\ AdmitOnly

\* one <a href> of the page: link_url, the filters, q.put and in_queue.add
ALink(raw) ==
    /\ acur # NoPage
    /\ anl < MaxLinksPerPage
    /\ anl' = anl + 1
    /\ LET link_url == LinkUrl(raw, acur, amode)
           put == /\ english_allowed(link_url, aseed.host)
                  /\ same_domain(link_url, aseed.host, TRUE)
                  /\ link_url \notin aseen
                  /\ link_url \notin ain_queue
                  /\ Cardinality(aseen) < MaxPagesBound
       IN  /\ aq' = IF put THEN Append(aq, link_url) ELSE aq
           /\ ain_queue' = IF put THEN ain_queue \cup {link_url} ELSE ain_queue
           /\ alast' = [raw |-> raw, put |-> put]
    /\ UNCHANGED <<amode, aallow, aseed, aseen, afetched, acur>>
    /\ AdmitOnly

\* the page is written and the worker calls q.task_done()
ADone ==
    /\ acur # NoPage
    /\ acur' = NoPage
    /\ anl' = 0
    /\ alast' = [raw |-> NoHref, put |-> FALSE]
    /\ UNCHANGED <<amode, aallow, aseed, aq, ain_queue, aseen, afetched>>
    /\ AdmitOnly

AdmNext ==
    \/ \E ok \in BOOLEAN : AGet(ok)
    \/ \E raw \in RawLinks : ALink(raw)
    \/ ADone

AdmInit == AdmStart /\ CrawlIdle /\ LimIdle /\ MirIdle /\ EntIdle /\ FetIdle /\ WbIdle /\ ProbeIdle /\ CssIdle /\ NormIdle /\ RunsIdle /\ LockIdle /\ CacheIdle /\ PathIdle

SpecAdmit == AdmInit /\ [][AdmNext]_vars

(***************************************************************************)
(* _wb_url and _wb_strip (src/crawler.py 169-185) as functions: a replay   *)
(* URL is built from a timestamp and an original URL and reduced again,    *)
(* or a URL that is not of the archive is reduced.                         *)
(***************************************************************************)
\* the snapshot timestamps of the runs of the model
SnapshotTs == {"20210101000000", "19961231235959"}

\* original URLs: http and https, apex, www and subdomain hosts, the empty
\* path, "/", one and two segments, with and without a query string
OriginalUrls ==
    {Url(s, h, p, qs) :
        s \in {"http", "https"},
        h \in {RootHost, <<"www">> \o RootHost, <<"blog">> \o RootHost},
        p \in {<<>>, <<EmptySeg>>, <<Seg("x")>>, <<Seg("a"), Seg("b")>>},
        qs \in {"", "y=1"}}

WbStart ==
    /\ wts \in SnapshotTs
    /\ wu \in OriginalUrls
    /\ wpc = "start"
    /\ wout = wu

\* _wb_url(ts, u)
WBuild ==
    /\ wpc = "start"
    /\ wpc' = "built"
    /\ wout' = wb_url(wts, wu)
    /\ UNCHANGED <<wts, wu>>
    /\ WaybackOnly

\* _wb_strip of the replay URL
WStrip ==
    /\ wpc = "built"
    /\ wpc' = "stripped"
    /\ wout' = wb_strip(wout)
    /\ UNCHANGED <<wts, wu>>
    /\ WaybackOnly

\* _wb_strip of the original URL, which is not on the archive host
WStripPlain ==
    /\ wpc = "start"
    /\ wpc' = "plain"
    /\ wout' = wb_strip(wu)
    /\ UNCHANGED <<wts, wu>>
    /\ WaybackOnly

WbNext == WBuild \/ WStrip \/ WStripPlain

WbInit ==
    WbStart /\ CrawlIdle /\ LimIdle /\ MirIdle /\ EntIdle /\ FetIdle /\ AdmIdle /\ ProbeIdle /\ CssIdle /\ NormIdle /\ RunsIdle /\ LockIdle /\ CacheIdle /\ PathIdle

SpecWayback == WbInit /\ [][WbNext]_vars

(***************************************************************************)
(* The image probes of one page: the loop over the img tags of             *)
(* crawl_to_zip.worker (src/crawler.py 593-612) and _probe_image           *)
(* (254-314).  One action per network request.                             *)
(***************************************************************************)
NumImgUrls == 2
NumImgTags == 2

ImgUrls == 1..NumImgUrls

\* a content type, lower-cased: "main/sub", or NoCtype for a missing header
NoCtype == [main |-> "", sub |-> ""]
ImagePng == [main |-> "image", sub |-> "png"]
TextHtml == [main |-> "text", sub |-> "html"]
ContentTypes == {NoCtype, ImagePng, TextHtml}

\* ctype.startswith("image")
StartsWithImage(ctype) == ctype.main = "image"

ProbeStatuses == {200, 204, 404}

\* what one request gives: an answer, or one of the exceptions caught
ProbeAnswers ==
    [err : {FALSE}, status : ProbeStatuses, ctype : ContentTypes]
        \cup {[err |-> TRUE, status |-> 0, ctype |-> NoCtype]}

\* imghdr.what on the first bytes: "image/<kind>" or ""
Sniffs == {NoCtype, ImagePng}

\* the classification with the case of status 200 left out
is_broken_4xx(status, ctype) == status >= 400

\* (status >= 400) or (status == 200 and not ctype.startswith("image"))
is_broken(status, ctype) ==
    (status >= 400) \/ (status = 200 /\ ~StartsWithImage(ctype))

ProbeResult(status, ctype, broken) ==
    [status |-> status, ctype |-> ctype, broken |-> broken]

\* return (0, "", True)
ProbeFailed == ProbeResult(0, NoCtype, TRUE)

NoProbe == [status |-> -1, ctype |-> NoCtype, broken |-> FALSE]

ImageRow(img, res) ==
    [image_url |-> img, status_code |-> res.status,
     content_type |-> res.ctype, is_broken |-> res.broken]

NoHead == [err |-> FALSE, status |-> -1, ctype |-> NoCtype]

\* a mutant of need_get: only a missing content type sends the GET
need_get_missing(status, ctype) == status = 200 /\ ctype = NoCtype

\* need_get = (status == 200 and not ctype) or
\*            (status == 200 and not ctype.startswith("image"))
need_get(status, ctype) ==
    (status = 200 /\ ctype = NoCtype) \/ (status = 200 /\ ~StartsWithImage(ctype))

ProbeStart ==
    /\ pcache = [i \in ImgUrls |-> NoProbe]
    /\ prows = <<>>
    /\ ppc = "pick"
    /\ pimg = 0
    /\ ptrace = <<>>
    /\ phead = NoHead

\* lines 609-611: the result is cached and the row is written
PRecord(res) ==
    /\ pcache' = [pcache EXCEPT ![pimg] = res]
    /\ prows' = Append(prows, ImageRow(pimg, res))
    /\ ppc' = "pick"
    /\ pimg' = 0

\* lines 596-605: the next img tag; a cached result is written at once
PPick(img) ==
    /\ ppc = "pick"
    /\ Len(prows) < NumImgTags
    /\ IF pcache[img] # NoProbe
         THEN /\ prows' = Append(prows, ImageRow(img, pcache[img]))
              /\ UNCHANGED <<pcache, ppc, pimg>>
         ELSE /\ ppc' = "head"
              /\ pimg' = img
              /\ UNCHANGED <<pcache, prows>>
    /\ ptrace' = <<>>
    /\ phead' = NoHead
    /\ ProbeOnly

\* lines 277-292 and 313-314: rate.wait() and the HEAD request
PHead(a) ==
    /\ ppc = "head"
    /\ ptrace' = ptrace \o <<"wait", "HEAD">>
    /\ phead' = a
    /\ IF a.err
         THEN PRecord(ProbeFailed)
         ELSE IF need_get(a.status, a.ctype)
                THEN /\ ppc' = "get"
                     /\ UNCHANGED <<pcache, prows, pimg>>
                ELSE PRecord(ProbeResult(a.status, a.ctype,
                                         is_broken(a.status, a.ctype)))
    /\ ProbeOnly

\* lines 294-311: rate.wait(), the streamed GET request and the sniffed type
PGet(a, sniffed) ==
    /\ ppc = "get"
    /\ ptrace' = ptrace \o <<"wait", "GET">>
    /\ phead' = phead
    /\ IF a.err
         THEN PRecord(ProbeFailed)
         ELSE LET ctype == IF /\ a.status = 200
                              /\ ~StartsWithImage(a.ctype)
                              /\ sniffed # NoCtype
                             THEN sniffed
                             ELSE a.ctype
              IN  PRecord(ProbeResult(a.status, ctype,
                                      is_broken(a.status, ctype)))
    /\ ProbeOnly

ProbeNext ==
    \/ \E img \in ImgUrls : PPick(img)
    \/ \E a \in ProbeAnswers : PHead(a)
    \/ \E a \in ProbeAnswers, sniffed \in Sniffs : PGet(a, sniffed)

ProbeInit ==
    ProbeStart /\ CrawlIdle /\ LimIdle /\ MirIdle /\ EntIdle /\ FetIdle /\ AdmIdle /\ WbIdle /\ CssIdle /\ NormIdle /\ RunsIdle /\ LockIdle /\ CacheIdle /\ PathIdle

SpecProbe == ProbeInit /\ [][ProbeNext]_vars

(***************************************************************************)
(* The paths of AssetMirror (src/mirror_assets.py): _target_for (81-92),   *)
(* _rewrite_css (131-166) and _mirror_css (168-188) for a stylesheet with  *)
(* one url(...) token.  A local path is a sequence of segments; a segment  *)
(* is the sequence of its dot-separated parts, as in the URLs.             *)
(***************************************************************************)
\* self.outroot
OutRoot == <<Seg("out"), Seg("site")>>

\* the segment ".."
Up == Seg("..")

RECURSIVE NormAcc(_, _)
NormAcc(p, acc) ==
    IF p = <<>> THEN acc
    ELSE IF Head(p) = EmptySeg THEN NormAcc(Tail(p), acc)
    ELSE IF Head(p) = Up
           THEN NormAcc(Tail(p),
                        IF acc = <<>> THEN acc ELSE SubSeq(acc, 1, Len(acc) - 1))
    ELSE NormAcc(Tail(p), Append(acc, Head(p)))

\* os.path.normpath of an absolute path
Normpath(p) == NormAcc(p, <<>>)

\* os.path.dirname
Dirname(p) == SubSeq(p, 1, Len(p) - 1)

\* _ext: the extension of the last segment, "" when it has none
ext(p) ==
    IF p = <<>> \/ Len(Last(p)) <= 1 \/ Last(p) = Up THEN ""
    ELSE Last(Last(p))

RECURSIVE LStrip(_)
\* s.lstrip("/")
LStrip(p) ==
    IF p # <<>> /\ Head(p) = EmptySeg THEN LStrip(Tail(p)) ELSE p

RECURSIVE RStrip(_)
\* s.rstrip("/")
RStrip(p) ==
    IF p # <<>> /\ Last(p) = EmptySeg THEN RStrip(Dirname(p)) ELSE p

\* the extension guessed from the bucket of _pick_bucket
BucketExt(p) ==
    IF ext(p) = "css" THEN "css" ELSE IF ext(p) = "js" THEN "js" ELSE "bin"

\* _target_for(url)[1]: the path below outroot
target_rel(u) ==
    LET rel == <<u.host>> \o LStrip(u.path)
    IN  IF Len(rel) = 1 \/ Last(rel) = EmptySeg \/ ext(rel) = ""
          THEN RStrip(rel) \o <<<<"index", BucketExt(u.path)>>>>
          ELSE rel

\* _target_for(url)[0]
target_abs(u) == OutRoot \o target_rel(u)

RECURSIVE CommonLen(_, _)
CommonLen(a, b) ==
    IF a = <<>> \/ b = <<>> \/ Head(a) # Head(b) THEN 0
    ELSE 1 + CommonLen(Tail(a), Tail(b))

\* os.path.relpath(path, start)
relpath(path, start) ==
    LET p == Normpath(path)
        s == Normpath(start)
        c == CommonLen(p, s)
    IN  [i \in 1..(Len(s) - c) |-> Up] \o SubSeq(p, c + 1, Len(p))

\* a mutant of css_root_dir: the paths are taken from outroot
css_root_dir_outroot(css_abs_path) == OutRoot

\* root_dir = os.path.dirname(css_abs_path)
css_root_dir(css_abs_path) == Dirname(css_abs_path)

\* _norm_join(base, token): a token with scheme and host is taken as it is,
\* a path is joined to the directory of the base and its dot segments and
\* inner empty segments are removed
norm_join(base, token) ==
    IF token.kind = "url" THEN token.u
    ELSE LET from == IF token.kind = "abs" THEN <<>> ELSE Dirname(base.path)
         IN  Url(base.scheme, base.host,
                 NormAcc(token.u.path, from), token.u.query)

\* _same_host_or_sub(host, self.root_host)
same_host_or_sub(host, root) == host = root \/ EndsWithDot(host, root)

\* the stylesheets of the model
CssUrls ==
    {Url("http", RootHost, <<<<"style", "css">>>>, ""),
     Url("http", RootHost, <<Seg("css"), <<"a", "css">>>>, ""),
     Url("http", RootHost, <<Seg("css"), Seg("theme"), <<"b", "min", "css">>>>, "v=3"),
     Url("http", <<"www">> \o RootHost, <<Seg("css"), EmptySeg>>, "")}

NoHost == <<>>

Png == <<"a", "png">>

\* the tokens of the model: relative paths, a path from the root, URLs of
\* the site, of a subdomain and of another site, and a data: token
Tokens ==
    {[kind |-> "rel", u |-> Url("", NoHost, <<Seg("img"), Png>>, "")],
     [kind |-> "rel", u |-> Url("", NoHost, <<Up, Seg("img"), Png>>, "")],
     [kind |-> "rel", u |-> Url("", NoHost, <<Up, Up, Up, Png>>, "")],
     [kind |-> "rel", u |-> Url("", NoHost, <<Png>>, "v=2")],
     [kind |-> "rel", u |-> Url("", NoHost, <<Seg("fonts"), Seg("icon")>>, "")],
     [kind |-> "abs", u |-> Url("", NoHost, <<Seg("img"), Png>>, "")],
     [kind |-> "url", u |-> Url("http", RootHost, <<Seg("img"), EmptySeg, Png>>, "")],
     [kind |-> "url", u |-> Url("http", RootHost, <<Seg("a"), Up, Png>>, "")],
     [kind |-> "url", u |-> Url("http", RootHost, <<>>, "")],
     [kind |-> "url", u |-> Url("http", <<"cdn">> \o RootHost, <<<<"lib", "js">>>>, "")],
     [kind |-> "url", u |-> Url("http", <<"evil", "test">>, <<Png>>, "")],
     [kind |-> "data", u |-> Url("data", NoHost, <<>>, "")]}

\* abs_u of repl
TokenUrl == norm_join(scss, stoken)

\* the token is left as it is: data:, not http(s), or not self._allowed
TokenSkipped ==
    \/ stoken.kind = "data"
    \/ ~same_host_or_sub(TokenUrl.host, RootHost)

Unchanged == [rewritten |-> FALSE, path |-> <<>>]

\* url(repl_path), lines 160-163
Rewritten ==
    [rewritten |-> TRUE,
     path |-> relpath(OutRoot \o target_rel(TokenUrl),
                      css_root_dir(target_abs(scss)))]

Known(u) == \E m \in smap : m.url = u

\* the target may have been mirrored before, from a page or a stylesheet
CssStart ==
    /\ scss \in CssUrls
    /\ stoken \in Tokens
    /\ smap \in {{}} \cup
          (IF TokenSkipped THEN {}
           ELSE {{[url |-> TokenUrl, rel |-> target_rel(TokenUrl)]}})
    /\ spc = "start"
    /\ sout = Unchanged

\* _mirror_css, lines 174-187: the stylesheet is fetched
SCssFetch(ok) ==
    /\ spc = "start"
    /\ spc' = IF ok THEN "token" ELSE "failed"
    /\ UNCHANGED <<scss, stoken, smap, sout>>
    /\ CssOnly

\* repl, lines 137-148 and 160-163: the token is skipped, or its target is
\* known and the token is rewritten, or the target is to be fetched
SToken ==
    /\ spc = "token"
    /\ IF TokenSkipped
         THEN spc' = "written" /\ sout' = Unchanged
         ELSE IF Known(TokenUrl)
                THEN spc' = "written" /\ sout' = Rewritten
                ELSE spc' = "fetch" /\ sout' = sout
    /\ UNCHANGED <<scss, stoken, smap>>
    /\ CssOnly

\* repl, lines 149-163: the target is fetched, written and recorded
STargetFetch(ok) ==
    /\ spc = "fetch"
    /\ spc' = "written"
    /\ IF ok
         THEN /\ smap' = smap \cup
                    {[url |-> TokenUrl, rel |-> target_rel(TokenUrl)]}
              /\ sout' = Rewritten
         ELSE /\ smap' = smap
              /\ sout' = Unchanged
    /\ UNCHANGED <<scss, stoken>>
    /\ CssOnly

\* _mirror_css, lines 182-184: the stylesheet is written and recorded
SWrite ==
    /\ spc = "written"
    /\ spc' = "done"
    /\ smap' = {m \in smap : m.url # scss}
                   \cup {[url |-> scss, rel |-> target_rel(scss)]}
    /\ UNCHANGED <<scss, stoken, sout>>
    /\ CssOnly

CssNext ==
    \/ \E ok \in BOOLEAN : SCssFetch(ok)
    \/ SToken
    \/ \E ok \in BOOLEAN : STargetFetch(ok)
    \/ SWrite

CssInit ==
    CssStart /\ CrawlIdle /\ LimIdle /\ MirIdle /\ EntIdle /\ FetIdle /\ AdmIdle /\ WbIdle /\ ProbeIdle /\ NormIdle /\ RunsIdle /\ LockIdle /\ CacheIdle /\ PathIdle

SpecCss == CssInit /\ [][CssNext]_vars

(***************************************************************************)
(* _normalize and _pin_host of src/crawler_excel.py (74-81, 101-109) as    *)
(* functions of a parsed URL.                                              *)
(***************************************************************************)
\* str.lower on the labels of the model
Lower(l) ==
    IF l = "WWW" THEN "www" ELSE IF l = "Example" THEN "example" ELSE l

\* _base_host(h)
base_host(h) == strip_www([i \in DOMAIN h |-> Lower(h[i])])

\* CANON_HOST = None
NoCanon == <<>>

\* _pin_host(u)
pin_host(u, canon) ==
    IF canon = NoCanon THEN u
    ELSE IF base_host(u.host) = base_host(canon) /\ u.host # canon
           THEN [u EXCEPT !.host = canon]
    ELSE u

RECURSIVE CollapseSlashes(_)
\* re.sub(r"/{2,}", "/", path): an empty segment stays only at the end
CollapseSlashes(p) ==
    IF Len(p) <= 1 THEN p
    ELSE IF Head(p) = EmptySeg THEN CollapseSlashes(Tail(p))
    ELSE <<Head(p)>> \o CollapseSlashes(Tail(p))

\* [A-Za-z0-9]{1,8} on the last dot part of the segments of the model
ExtLike(s) == s \in {"html", "gz", "b", "hidden"}

\* re.search(r"/[^/]+\.[A-Za-z0-9]{1,8}$", path) on the last segment
HasFileExt(seg) ==
    /\ Len(seg) >= 2
    /\ ExtLike(Last(seg))
    /\ ~(Len(seg) = 2 /\ seg[1] = "")

\* a mutant of normalize_path: the slash is added to every path without a
\* file extension and repeated slashes stay
normalize_path_append(path) ==
    IF path = <<>> THEN <<EmptySeg>>
    ELSE IF ~HasFileExt(Last(path)) THEN Append(path, EmptySeg)
    ELSE path

\* lines 103-107: the path of _normalize
normalize_path(path) ==
    LET p == CollapseSlashes(IF path = <<>> THEN <<EmptySeg>> ELSE path)
    IN  IF p # <<EmptySeg>> /\ Last(p) # EmptySeg /\ ~HasFileExt(Last(p))
          THEN Append(p, EmptySeg)
          ELSE p

\* _normalize(u)
normalize(u, canon) ==
    pin_host([u EXCEPT !.path = normalize_path(u.path)], canon)

\* the pinned hosts: none, apex, www, and www as it was typed
CanonHosts ==
    {NoCanon, RootHost, <<"www">> \o RootHost, <<"WWW", "Example", "com">>}

NormHosts ==
    {RootHost, <<"www">> \o RootHost, <<"WWW", "Example", "com">>,
     <<"shop">> \o RootHost}

\* the paths: "", "/", "/a", "/a/", "//a//b", "/a//", "/a.html", "/a/b.tar.gz",
\* "/a.b/c", "/.hidden", "/a.", "/a.verylongext"
NormPaths ==
    {<<>>, <<EmptySeg>>, <<Seg("a")>>, <<Seg("a"), EmptySeg>>,
     <<EmptySeg, Seg("a"), EmptySeg, Seg("b")>>,
     <<Seg("a"), EmptySeg, EmptySeg>>,
     <<<<"a", "html">>>>, <<Seg("a"), <<"b", "tar", "gz">>>>,
     <<<<"a", "b">>, Seg("c")>>, <<<<"", "hidden">>>>, <<<<"a", "">>>>,
     <<<<"a", "verylongext">>>>}

NormUrls ==
    {Url("https", h, p, qs) : h \in NormHosts, p \in NormPaths, qs \in {"", "x=1"}}

NormStart ==
    /\ ncanon \in CanonHosts
    /\ nu \in NormUrls
    /\ npc = "start"
    /\ nonce = nu
    /\ ntwice = nu

\* _normalize(u)
NOnce ==
    /\ npc = "start"
    /\ npc' = "once"
    /\ nonce' = normalize(nu, ncanon)
    /\ UNCHANGED <<ncanon, nu, ntwice>>
    /\ NormOnly

\* _normalize of the result
NTwice ==
    /\ npc = "once"
    /\ npc' = "twice"
    /\ ntwice' = normalize(nonce, ncanon)
    /\ UNCHANGED <<ncanon, nu, nonce>>
    /\ NormOnly

NormNext == NOnce \/ NTwice

NormInit ==
    NormStart /\ CrawlIdle /\ LimIdle /\ MirIdle /\ EntIdle /\ FetIdle /\ AdmIdle /\ WbIdle /\ ProbeIdle /\ CssIdle /\ RunsIdle /\ LockIdle /\ CacheIdle /\ PathIdle

SpecNormalize == NormInit /\ [][NormNext]_vars

(***************************************************************************)
(* The runs of crawl_to_zip in one process and the objects they pace and   *)
(* memoize with: the module-level _page_limiter, _img_limiter and          *)
(* _IMG_CACHE (src/crawler.py 56-57, 62-63) and the limiters a wayback run *)
(* makes for itself (415-416).  Runs interleave freely, so a run may start *)
(* after or during another one.                                            *)
(***************************************************************************)
NumRuns == 2
MaxRunSteps == 2

Runs == 1..NumRuns

NoRun == 0

\* the global limiters belong to no run
GlobalOwner == 0

Limiters == {"page", "img"} \X (Runs \cup {GlobalOwner})

\* lines 407-408 and 415-416: the limiter of a kind a run waits on
LimiterOf(r, kind) ==
    IF rmode[r] = "wayback" THEN <<kind, r>> ELSE <<kind, GlobalOwner>>

RunsStart ==
    /\ rmode = [r \in Runs |-> "live"]
    /\ rpc = [r \in Runs |-> "new"]
    /\ rsteps = [r \in Runs |-> 0]
    /\ lim_writer = [l \in Limiters |-> NoRun]
    /\ cache_writer = [i \in ImgUrls |-> NoRun]
    /\ rreads = {}

\* a read of state another run or this run wrote; state nobody wrote yet
\* leaves no record
ReadOf(r, writer, what) ==
    IF writer = NoRun THEN {} ELSE {[by |-> r, of |-> writer, what |-> what]}

\* crawl_to_zip lines 395-418: the run chooses its limiters
RBegin(r, mode) ==
    /\ rpc[r] = "new"
    /\ rmode' = [rmode EXCEPT ![r] = mode]
    /\ rpc' = [rpc EXCEPT ![r] = "running"]
    /\ UNCHANGED <<rsteps, lim_writer, cache_writer, rreads>>
    /\ RunsOnly

\* RateLimiter.wait, lines 48-53: the cursor is read and advanced
Wait(r, kind) ==
    /\ rreads' = rreads \cup ReadOf(r, lim_writer[LimiterOf(r, kind)], kind)
    /\ lim_writer' = [lim_writer EXCEPT ![LimiterOf(r, kind)] = r]

\* line 487: page_rate.wait() before a page is fetched
RPageWait(r) ==
    /\ rpc[r] = "running"
    /\ rsteps[r] < MaxRunSteps
    /\ rsteps' = [rsteps EXCEPT ![r] = @ + 1]
    /\ Wait(r, "page")
    /\ UNCHANGED <<rmode, rpc, cache_writer>>
    /\ RunsOnly

\* lines 600-610: the cache is asked; a cached result is used, otherwise
\* the image is probed under img_rate and the result is stored
RImage(r, img) ==
    /\ rpc[r] = "running"
    /\ rsteps[r] < MaxRunSteps
    /\ rsteps' = [rsteps EXCEPT ![r] = @ + 1]
    /\ IF cache_writer[img] # NoRun
         THEN /\ rreads' = rreads \cup ReadOf(r, cache_writer[img], "cache")
              /\ UNCHANGED <<lim_writer, cache_writer>>
         ELSE /\ Wait(r, "img")
              /\ cache_writer' = [cache_writer EXCEPT ![img] = r]
    /\ UNCHANGED <<rmode, rpc>>
    /\ RunsOnly

\* the run returns its archive
REnd(r) ==
    /\ rpc[r] = "running"
    /\ rpc' = [rpc EXCEPT ![r] = "done"]
    /\ UNCHANGED <<rmode, rsteps, lim_writer, cache_writer, rreads>>
    /\ RunsOnly

RunsNext ==
    \/ \E r \in Runs, mode \in {"live", "wayback"} : RBegin(r, mode)
    \/ \E r \in Runs : RPageWait(r)
    \/ \E r \in Runs, img \in ImgUrls : RImage(r, img)
    \/ \E r \in Runs : REnd(r)

RunsInit ==
    RunsStart /\ CrawlIdle /\ LimIdle /\ MirIdle /\ EntIdle /\ FetIdle /\ AdmIdle /\ WbIdle /\ ProbeIdle /\ CssIdle /\ NormIdle /\ LockIdle /\ CacheIdle /\ PathIdle

SpecRuns == RunsInit /\ [][RunsNext]_vars


(***************************************************************************)
(* The locks of a run of crawl_to_zip (src/crawler.py 43-82, 443-449,      *)
(* 470-635; src/mirror_assets.py 17-28, 97-129): the three limiter locks,  *)
(* write_lock of the four sinks, _IMG_CACHE_LOCK, AssetMap.lock and the    *)
(* mutex inside queue.Queue.  A worker thread goes through the calls that  *)
(* take a lock in the order of the worker's code; each call takes its      *)
(* lock, runs its body and gives the lock back.  A threading.Lock is not   *)
(* reentrant: a thread that takes a lock it holds blocks for ever.         *)
(***************************************************************************)
NumLockThreads == 2

LockThreads == 1..NumLockThreads

Locks == {"queue", "page_limiter", "img_limiter", "mirror_limiter",
          "write", "cache", "assetmap"}

\* the calls of the worker that take a lock, in the order of its code, with
\* the lock each takes and the calls that can come next; 0 is the thread that
\* has returned
LockSteps ==
    (1 :> [op |-> "q.get", lock |-> "queue", next |-> {0, 2, 14}]) @@
    (2 :> [op |-> "page_rate.wait", lock |-> "page_limiter", next |-> {2, 3, 14}]) @@
    (3 :> [op |-> "pages_writer.writerow", lock |-> "write", next |-> {4, 6, 9, 10, 14}]) @@
    (4 :> [op |-> "link_writer.writerow", lock |-> "write", next |-> {4, 5, 6, 9, 10, 14}]) @@
    (5 :> [op |-> "q.put", lock |-> "queue", next |-> {4, 6, 9, 10, 14}]) @@
    (6 :> [op |-> "_IMG_CACHE.get", lock |-> "cache", next |-> {7, 9}]) @@
    (7 :> [op |-> "img_rate.wait", lock |-> "img_limiter", next |-> {7, 8}]) @@
    (8 :> [op |-> "_IMG_CACHE[img_url] =", lock |-> "cache", next |-> {9}]) @@
    (9 :> [op |-> "image_writer.writerow", lock |-> "write", next |-> {6, 9, 10, 14}]) @@
    (10 :> [op |-> "url in self.map", lock |-> "assetmap", next |-> {10, 11, 14}]) @@
    (11 :> [op |-> "self.rate.wait", lock |-> "mirror_limiter", next |-> {12}]) @@
    (12 :> [op |-> "assets_writer.writerow", lock |-> "write", next |-> {10, 13, 14}]) @@
    (13 :> [op |-> "self.map[url] =", lock |-> "assetmap", next |-> {10, 14}]) @@
    (14 :> [op |-> "q.task_done", lock |-> "queue", next |-> {1}])

StepLock(step) == LockSteps[step].lock

\* a mutant of Releases: the with block of _IMG_CACHE.get keeps its lock
Releases_KeepCache(step) == IF step = 6 THEN {} ELSE {StepLock(step)}

\* the locks a call gives back when its body ends: the one it took, the body
\* of no with block and of no queue method takes a second one
Releases(step) == {StepLock(step)}

LockStart ==
    /\ lstep = [t \in LockThreads |-> 1]
    /\ lphase = [t \in LockThreads |-> "out"]
    /\ lheld = [t \in LockThreads |-> {}]
    /\ lowner = [l \in Locks |-> 0]

\* the thread takes the lock of its call: it blocks while the lock is owned
LockAcquire(t) ==
    /\ lstep[t] # 0
    /\ lphase[t] = "out"
    /\ lowner[StepLock(lstep[t])] = 0
    /\ lowner' = [lowner EXCEPT ![StepLock(lstep[t])] = t]
    /\ lheld' = [lheld EXCEPT ![t] = @ \cup {StepLock(lstep[t])}]
    /\ lphase' = [lphase EXCEPT ![t] = "in"]
    /\ UNCHANGED lstep
    /\ LocksOnly

\* the body of the call ends, the lock is given back and the thread goes on
\* to its next call
LockRelease(t, n) ==
    /\ lphase[t] = "in"
    /\ n \in LockSteps[lstep[t]].next
    /\ lowner' = [l \in Locks |->
                    IF l \in Releases(lstep[t]) /\ lowner[l] = t THEN 0
                    ELSE lowner[l]]
    /\ lheld' = [lheld EXCEPT ![t] = @ \ Releases(lstep[t])]
    /\ lphase' = [lphase EXCEPT ![t] = "out"]
    /\ lstep' = [lstep EXCEPT ![t] = n]
    /\ LocksOnly

LockNext ==
    \/ \E t \in LockThreads : LockAcquire(t)
    \/ \E t \in LockThreads : \E n \in 0..14 : LockRelease(t, n)

LockInit ==
    LockStart /\ CrawlIdle /\ LimIdle /\ MirIdle /\ EntIdle /\ FetIdle /\ AdmIdle /\ WbIdle /\ ProbeIdle /\ CssIdle /\ NormIdle /\ RunsIdle /\ CacheIdle /\ PathIdle

SpecLocks == LockInit /\ [][LockNext]_vars

(***************************************************************************)
(* _IMG_CACHE under the workers of a run (src/crawler.py 62-63, 594-614):  *)
(* every worker goes through the <img> tags of its pages; for a tag it     *)
(* reads the cache under _IMG_CACHE_LOCK, probes the image when the read   *)
(* gave nothing, stores the result under the lock and writes the row.  The *)
(* probe runs between the two with blocks, outside the lock.               *)
(***************************************************************************)
MaxTagsPerWorker == 2

\* what a probe returns, as the cache keeps it: a 3-tuple; (0, "", True) is
\* the failed probe
CacheResults == {<<200, "image/png", FALSE>>, <<404, "", TRUE>>, <<0, "", TRUE>>}

\* _IMG_CACHE.get(img_url) on a key that is absent
NotCached == <<>>

\* "if cached:" on the value read: a tuple is true when it is not empty
Truthy(cached) == Len(cached) > 0

CacheStart ==
    /\ ccache = [i \in ImgUrls |-> NotCached]
    /\ cpc = [w \in Workers |-> "tag"]
    /\ cimg = [w \in Workers |-> 0]
    /\ cres = [w \in Workers |-> NotCached]
    /\ ctags = [w \in Workers |-> 0]
    /\ cprobes = [i \in ImgUrls |-> 0]
    /\ chits = [i \in ImgUrls |-> 0]

\* lines 601-604: with _IMG_CACHE_LOCK: cached = _IMG_CACHE.get(img_url)
CLookup(w, img) ==
    /\ cpc[w] = "tag"
    /\ ctags[w] < MaxTagsPerWorker
    /\ ctags' = [ctags EXCEPT ![w] = @ + 1]
    /\ cimg' = [cimg EXCEPT ![w] = img]
    /\ IF Truthy(ccache[img])
         THEN /\ cres' = [cres EXCEPT ![w] = ccache[img]]
              /\ chits' = [chits EXCEPT ![img] = @ + 1]
              /\ cpc' = [cpc EXCEPT ![w] = "row"]
         ELSE /\ cpc' = [cpc EXCEPT ![w] = "probe"]
              /\ UNCHANGED <<cres, chits>>
    /\ UNCHANGED <<ccache, cprobes>>
    /\ CacheOnly

\* lines 606-608: _probe_image(...) over the network
CProbe(w, res) ==
    /\ cpc[w] = "probe"
    /\ cprobes' = [cprobes EXCEPT ![cimg[w]] = @ + 1]
    /\ cres' = [cres EXCEPT ![w] = res]
    /\ cpc' = [cpc EXCEPT ![w] = "store"]
    /\ UNCHANGED <<ccache, cimg, ctags, chits>>
    /\ CacheOnly

\* lines 609-610: with _IMG_CACHE_LOCK: _IMG_CACHE[img_url] = (...)
CStore(w) ==
    /\ cpc[w] = "store"
    /\ ccache' = [ccache EXCEPT ![cimg[w]] = cres[w]]
    /\ cpc' = [cpc EXCEPT ![w] = "row"]
    /\ UNCHANGED <<cimg, cres, ctags, cprobes, chits>>
    /\ CacheOnly

\* lines 611-612: probed_this_page += 1; image_writer.writerow(...)
CRow(w) ==
    /\ cpc[w] = "row"
    /\ cpc' = [cpc EXCEPT ![w] = "tag"]
    /\ cimg' = [cimg EXCEPT ![w] = 0]
    /\ cres' = [cres EXCEPT ![w] = NotCached]
    /\ UNCHANGED <<ccache, ctags, cprobes, chits>>
    /\ CacheOnly

CacheNext ==
    \/ \E w \in Workers : \E img \in ImgUrls : CLookup(w, img)
    \/ \E w \in Workers : \E res \in CacheResults : CProbe(w, res)
    \/ \E w \in Workers : CStore(w)
    \/ \E w \in Workers : CRow(w)

CacheInit ==
    CacheStart /\ CrawlIdle /\ LimIdle /\ MirIdle /\ EntIdle /\ FetIdle /\ AdmIdle /\ WbIdle /\ ProbeIdle /\ CssIdle /\ NormIdle /\ RunsIdle /\ LockIdle /\ PathIdle

SpecCache == CacheInit /\ [][CacheNext]_vars

(***************************************************************************)
(* The files of one run below outroot: the assets AssetMirror writes at    *)
(* _target_for(url) (src/mirror_assets.py 81-99, 114-124) and the pages    *)
(* the worker writes at _dest_for(url, outroot) (src/crawler.py 112-120,   *)
(* 537, 627-628).  A file is written with open(path, "w"/"wb"), which      *)
(* replaces what the path held.                                            *)
(***************************************************************************)
MaxMirrored == 2

\* URLs of the site: two hosts, a path with and without a final slash, an
\* image, a page with an extension, each with and without a query string
PathUrls ==
    {Url("http", h, p, qs) :
        h \in {RootHost, <<"www">> \o RootHost},
        p \in {<<Seg("p")>>, <<Seg("p"), EmptySeg>>, <<Png>>, <<<<"p", "html">>>>},
        qs \in {"", "id=2"}}

\* _dest_for(url, out_root)
dest_for(u) ==
    LET path   == IF u.path = <<>> THEN <<EmptySeg>> ELSE u.path
        slash  == IF Last(path) = EmptySeg
                    THEN Dirname(path) \o <<<<"index", "html">>>>
                    ELSE path
        named  == IF ext(slash) = ""
                    THEN [RStrip(slash) EXCEPT ![Len(RStrip(slash))] = Append(@, "html")]
                    ELSE slash
    IN  OutRoot \o <<u.host>> \o LStrip(named)

\* open(path, "w") ... write: the path holds the content of u from now on
WriteFile(path, u) ==
    tfiles' = {f \in tfiles : f.path # path} \cup {[path |-> path, url |-> u]}

Mirrored(kind) == {tmirrored[k].url : k \in {j \in DOMAIN tmirrored : tmirrored[j].kind = kind}}

PathStart ==
    /\ tfiles = {}
    /\ tmirrored = <<>>

\* _mirror_binary of a URL that is not in self.map and is fetched with 200
PMirrorAsset(u) ==
    /\ Len(tmirrored) < MaxMirrored
    /\ u \notin Mirrored("asset")
    /\ WriteFile(target_abs(u), u)
    /\ tmirrored' = Append(tmirrored, [url |-> u, kind |-> "asset", path |-> target_abs(u)])
    /\ PathsOnly

\* the worker saves a page it has fetched: dest = _dest_for(url, outroot),
\* with open(dest, "w") as f: f.write(str(soup))
PSavePage(u) ==
    /\ Len(tmirrored) < MaxMirrored
    /\ u \notin Mirrored("page")
    /\ WriteFile(dest_for(u), u)
    /\ tmirrored' = Append(tmirrored, [url |-> u, kind |-> "page", path |-> dest_for(u)])
    /\ PathsOnly

PathNext ==
    \/ \E u \in PathUrls : PMirrorAsset(u)
    \/ \E u \in PathUrls : PSavePage(u)

PathInit ==
    PathStart /\ CrawlIdle /\ LimIdle /\ MirIdle /\ EntIdle /\ FetIdle /\ AdmIdle /\ WbIdle /\ ProbeIdle /\ CssIdle /\ NormIdle /\ RunsIdle /\ LockIdle /\ CacheIdle

SpecPaths == PathInit /\ [][PathNext]_vars

(***************************************************************************)
(* Derived quantities of a run.                                            *)
(***************************************************************************)

\* how often URL u occurs on the queue
InQ(u) == Cardinality({i \in DOMAIN q : q[i] = u})

\* how often URL u has been taken from the queue
GetCount(u) == put_count[u] - InQ(u)

\* the pages a link of page u leads to and that pass the filters of the link loop
Children(u) == {l \in Range(LinksOf(u)) : EnglishAllowed(l) /\ SameDomain(l)}

RECURSIVE ReachFrom(_)
ReachFrom(S) ==
    LET T == S \cup UNION {Children(u) : u \in S}
    IN  IF T = S THEN S ELSE ReachFrom(T)

\* the admissible pages reachable from the seed, and their number M
Reachable == ReachFrom({SeedUrl})

TotalRows == LET RECURSIVE Sum(_)
                 Sum(S) == IF S = {} THEN 0
                           ELSE LET u == CHOOSE x \in S : TRUE
                                IN  pages_rows[u] + Sum(S \ {u})
             IN  Sum(SiteUrls)

\* every fetch of the run so far answered 200 HTML and no processing raised
AllAnswered200 ==
    /\ dropped = <<>>
    /\ \A u \in SiteUrls : outcome[u] \subseteq {"success"}

Failed(u) == outcome[u] \cap {"dropped", "error"} # {}

FailureUrls == {failures[i][1] : i \in DOMAIN failures}

Processing == {"fetch", "row", "links", "put", "add"}

(***************************************************************************)
(* The claims about the admission of links.                                *)
(***************************************************************************)

\* the host is the root domain of the site or one of its subdomains
InRootDomain(h) == h = RootHost \/ EndsWithDot(h, RootHost)

\* the host is a proper subdomain of the root host, the www form apart
ProperSubdomain(h, root_netloc) ==
    /\ EndsWithDot(h, strip_www(root_netloc))
    /\ strip_www(h) # strip_www(root_netloc)

\* the first path segment of the URL, or a label of its host under the root
\* domain, is a denylisted locale code
LocaleUrl(u) ==
    \/ looks_lang(first_path_segment(u.path)) \in LANG_DENY
    \/ /\ EndsWithDot(u.host, RootHost)
       /\ \E i \in 1..(Len(u.host) - Len(RootHost)) : u.host[i] \in LANG_DENY

\* C11: a URL whose host is outside the root domain of the crawl, or whose
\* first path segment or subdomain is a denylisted locale code, is never put
\* on the frontier and never fetched as a page.
C11_NeverAdmitted ==
    \A u \in (ain_queue \ {aseed}) \cup afetched :
        InRootDomain(u.host) /\ ~LocaleUrl(u)

\* C12: when allow_subdomains is false, no URL whose host is a proper
\* subdomain of the root host is ever enqueued or fetched.
C12_SubdomainsFollowOption ==
    ~aallow =>
        \A u \in ain_queue \cup afetched : ~ProperSubdomain(u.host, aseed.host)

\* C17: in wayback mode the queue and in_queue hold no URL of the archive
\* host, whichever way the link was written in the replayed page.
C17_NoArchiveUrls ==
    amode = "wayback" =>
        \A u \in ain_queue \cup Range(aq) : u.host # ArchiveHost

\* C17 witness: in wayback mode a link written as a replay URL, or as a /web/
\* path, or from the host on, was read, and one written as a replay URL was
\* put on the queue as the URL of the original site.
C17_Witness ==
    /\ amode = "wayback"
    /\ alast.put
    /\ alast.raw.form = "absolute"
    /\ alast.raw.u.host = ArchiveHost
    /\ \E t \in Targets : Last(aq) = [t EXCEPT !.query = ""]

(***************************************************************************)
(* The claims about the replay URLs.                                       *)
(***************************************************************************)

\* C25: the filters a URL passes as the seed of a run are the filters it
\* passes as a link discovered in a run: for the link the worker has just
\* examined, the language gate, the same-domain test and the ceiling of the
\* link loop accept it exactly when crawl_to_zip would accept it as start_url.
SeedFilters(u) == english_allowed(u, u.host)

LinkFilters(l) ==
    /\ english_allowed(l, aseed.host)
    /\ same_domain(l, aseed.host, TRUE)
    /\ Cardinality(aseen) < MaxPagesBound

C25_SeedAsLink ==
    alast.raw.form # "none" =>
        LET l == LinkUrl(alast.raw, acur, amode)
        IN  LinkFilters(l) <=> SeedFilters(l)

\* C26: two URLs that differ only in the www./apex form of the root host (same
\* scheme, path and query) are one dedup key: in_queue, and with it the queue,
\* never holds both, and at most one of the two is fetched in a run.
WwwTwins(u, v) ==
    /\ u # v
    /\ u.scheme = v.scheme
    /\ u.path = v.path
    /\ u.query = v.query
    /\ strip_www(u.host) = strip_www(aseed.host)
    /\ strip_www(v.host) = strip_www(aseed.host)

C26_OneDedupKey ==
    /\ \A u, v \in ain_queue : ~WwwTwins(u, v)
    /\ \A u, v \in afetched : ~WwwTwins(u, v)

\* C27: no thread takes a lock while it holds another one: a thread holds at
\* most one lock, holds none when it asks for one, and a thread that waits for
\* an owned lock waits for a thread that is inside the body of its call, which
\* waits for nothing: no state is a deadlock across locks.
C27_NoNestedLocks ==
    /\ \A t \in LockThreads :
        /\ Cardinality(lheld[t]) <= 1
        /\ lphase[t] = "out" => lheld[t] = {}
        /\ lphase[t] = "in" => lheld[t] = {StepLock(lstep[t])}
    /\ \A l \in Locks : lowner[l] # 0 => l \in lheld[lowner[l]]
    /\ \A t \in LockThreads :
        (lstep[t] # 0 /\ lphase[t] = "out" /\ lowner[StepLock(lstep[t])] # 0)
            => lphase[lowner[StepLock(lstep[t])]] = "in"

\* C27 witness: one thread is inside pages_writer.writerow and owns write_lock
\* while another one, which has given back the lock of the AssetMap limiter,
\* waits for write_lock at assets_writer.writerow.
C27_Witness ==
    \E t, o \in LockThreads :
        /\ t # o
        /\ lstep[o] = 3 /\ lphase[o] = "in" /\ lowner["write"] = o
        /\ lstep[t] = 12 /\ lphase[t] = "out" /\ lheld[t] = {}
        /\ lowner["mirror_limiter"] = 0

\* where a reference of the saved page leads: to the original URL of the
\* asset when it holds the absolute URL, or was written in full and left alone
PointsAtOriginal(held, written) ==
    held = "abs" \/ (held = "written" /\ written = "absolute")

\* the fetch of an asset has failed: nothing is stored, one row with an empty
\* local_path is appended
FailedFetchLogged(w, a) ==
    /\ mmap' = mmap
    /\ mfiles' = mfiles
    /\ assets_rows' = Append(assets_rows, <<a, mlast'[w].status, 0>>)

\* C30: when the fetch of an asset fails (the request raised, the status is
\* not 200, or the body is empty), the reference of the page holds the
\* original absolute URL of the asset, one row with an empty local_path is
\* appended to assets.csv, no file is written and self.map is unchanged, for
\* a reference in a tag attribute and for one in a style attribute.
C30_FailedFetchKeepsUrl ==
    [][\A w \in Workers :
        /\ (mpc[w] = "fetch" /\ mpc'[w] # "fetch" /\ ~FetchOk(mlast'[w])) =>
              /\ FailedFetchLogged(w, PageRefs[mi[w]])
              /\ PointsAtOriginal(mrefs'[w].tags[mi[w]], TagsWritten[mi[w]])
        /\ (mpc[w] = "ifetch" /\ mpc'[w] # "ifetch" /\ ~FetchOk(mlast'[w])) =>
              /\ FailedFetchLogged(w, InlineRefs[mj[w]])
              /\ PointsAtOriginal(mrefs'[w].styles[mj[w]], StylesWritten[mj[w]])]_vars

\* C31: with MIRROR_EXTERNAL_ASSETS off, mirror_and_rewrite sends no request
\* for a reference whose host is neither the root host nor a subdomain of it,
\* and the attribute of that reference stays as the page wrote it, for every
\* kind of reference.
C31_ExternalUntouched ==
    /\ fetch_count[ExternalAsset] = 0
    /\ \A w \in Workers : \A k \in 1..Len(PageRefs) :
        ~Allowed(PageRefs[k]) => mrefs[w].tags[k] = "written"

\* the requests of a run so far
TotalFetches ==
    LET RECURSIVE Sum(_)
        Sum(S) == IF S = {} THEN 0
                  ELSE LET a == CHOOSE x \in S : TRUE
                       IN  fetch_count[a] + Sum(S \ {a})
    IN  Sum(DOMAIN fetch_count)

\* C32: mirror_and_rewrite returns for every page, also when a stylesheet
\* names itself in a url(...): a token is fetched inside a stylesheet that a
\* tag of the page names, never inside an asset fetched for a token, so one
\* page costs at most one request per tag reference, per token of the
\* stylesheet and per token of the style attributes.
C32_MirrorTerminates ==
    /\ [](TotalFetches <= Len(PageRefs) + Len(CssRefs) + Len(InlineRefs))
    /\ [](\A w \in Workers :
            mpc[w] \in {"css", "cfetch"} =>
                /\ IsCss(PageRefs[mi[w]])
                /\ mj[w] <= Len(CssRefs) + 1)
    /\ \A w \in Workers : (mpc[w] # "idle") ~> (mpc[w] = "idle")

\* C32 witness: the stylesheet has been fetched once more for the url(...) in
\* which it names itself, its tokens have all been passed and it is about to
\* be written.
C32_Witness ==
    \E w \in Workers :
        /\ mpc[w] = "css"
        /\ mj[w] > Len(CssRefs)
        /\ fetch_count[StyleSheet] = 2
        /\ StyleSheet \in mmap[w]

\* C33: a probe sends a GET exactly when its HEAD answered 200 with no
\* content type or with one that is not an image type; the HEAD comes first,
\* and the HEAD and the GET each come after one wait() on the image limiter.
C33_GetAfterHead ==
    LET escalate == /\ ~phead.err
                    /\ phead.status = 200
                    /\ phead.ctype = NoCtype \/ phead.ctype.main # "image"
    IN  /\ ptrace \in {<<>>, <<"wait", "HEAD">>, <<"wait", "HEAD", "wait", "GET">>}
        /\ ptrace = <<>> <=> phead = NoHead
        /\ ppc = "head" => ptrace = <<>>
        /\ ppc = "get" => ptrace = <<"wait", "HEAD">> /\ escalate
        /\ (ppc = "pick" /\ ptrace # <<>>) => (Len(ptrace) = 4 <=> escalate)

\* C33 witness: the HEAD answered 200 text/html, the GET was sent after a
\* second wait, and the probe has been recorded.
C33_Witness ==
    /\ ppc = "pick"
    /\ ptrace = <<"wait", "HEAD", "wait", "GET">>
    /\ phead.status = 200
    /\ phead.ctype = TextHtml
    /\ prows # <<>>

\* C34: under every interleaving of the workers each image URL is probed over
\* the network at most once in a run, and a tag whose URL has a stored result,
\* a failed probe included, is answered from the cache.
C34_ProbedOnce ==
    /\ \A i \in ImgUrls : cprobes[i] <= 1
    /\ \A w \in Workers : cpc[w] = "probe" => ccache[cimg[w]] = NotCached

\* C35: fetch() of crawler_excel follows at most max_hops redirects and sees
\* at most max_retries answers 429/503, so it sends a bounded number of
\* requests; the response it returns carries the chain, whose triples are
\* contiguous, whose first "from" is the URL asked for and whose length is at
\* most max_hops.
C35_BoundedFetchChain ==
    ffetcher = "fetch" =>
        /\ fhops <= MaxHops
        /\ fattempt <= EXCEL_MAX_RETRIES
        /\ fsends <= MaxHops + EXCEL_MAX_RETRIES
        /\ fpc = "returned" <=> fattached # NoChain
        /\ fpc = "returned" =>
              /\ Len(fattached) <= MaxHops
              /\ Len(fattached) > 0 => fattached[1][2] = RequestedUrl
              /\ \A i \in 1..(Len(fattached) - 1) :
                    fattached[i][3] = fattached[i + 1][2]

\* C35 witness: fetch() has returned after max_hops redirects that led away
\* from the URL asked for and back, with a 429 in between.
C35_Witness ==
    /\ ffetcher = "fetch"
    /\ fpc = "returned"
    /\ Len(fattached) = MaxHops
    /\ fattached[1][3] # RequestedUrl
    /\ fattempt >= 1

\* C15: _wb_strip(_wb_url(ts, u)) = u for every timestamp ts and every original
\* http(s) URL u, with or without a query string, and a URL that is not on the
\* archive host is returned unchanged.
C15_RoundTrip ==
    /\ wpc = "stripped" => wout = wu
    /\ wpc = "plain" => wout = wu

(***************************************************************************)
(* The claims about the image probe.                                       *)
(***************************************************************************)

\* C13 as stated: in every row of the images sink, is_broken is
\* (status_code >= 400) or (status_code = 200 and the content type is not an
\* image type), whatever the probe met, a network error included.
C13_BrokenIsFormula ==
    \A i \in 1..Len(prows) :
        prows[i].is_broken
            <=> \/ prows[i].status_code >= 400
                \/ /\ prows[i].status_code = 200
                   /\ ~StartsWithImage(prows[i].content_type)

\* C13, amended: is_broken is the formula for every probe that got an answer;
\* a probe that met a network error writes status_code 0, an empty content
\* type and is_broken = yes.
C13_BrokenOrUnreachable ==
    \A i \in 1..Len(prows) :
        /\ prows[i].is_broken
             <=> \/ prows[i].status_code >= 400
                 \/ /\ prows[i].status_code = 200
                    /\ ~StartsWithImage(prows[i].content_type)
                 \/ prows[i].status_code = 0
        /\ prows[i].status_code = 0 => prows[i].content_type = NoCtype

\* a page with the row of an image that answered 404 to HEAD and the row of
\* an image whose probe met a network error
C13_Witness ==
    /\ \E i \in 1..Len(prows) :
           prows[i].status_code = 404 /\ prows[i].is_broken
    /\ \E i \in 1..Len(prows) :
           prows[i].status_code = 0 /\ prows[i].is_broken

(***************************************************************************)
(* The claims about the mirrored stylesheets.                              *)
(***************************************************************************)

\* the file a token of the stylesheet written names: the token joined to the
\* directory of the local file of the stylesheet
ResolvedToken == Normpath(Dirname(target_abs(scss)) \o sout.path)

\* C14: when the stylesheet has been rewritten and the target of its token
\* is in the AssetMap, the token is rewritten and, resolved from the
\* directory of the local file of the stylesheet, it names the local file
\* the AssetMap records for the target.
C14_TokenResolves ==
    spc \in {"written", "done"} =>
        \A m \in smap :
            m.url = TokenUrl /\ stoken.kind # "data" =>
                /\ sout.rewritten
                /\ ResolvedToken = Normpath(OutRoot \o m.rel)

\* a stylesheet two directories deep whose token climbs out of its directory
\* and whose target has been fetched and mirrored
C14_Witness ==
    /\ spc = "done"
    /\ Len(scss.path) = 3
    /\ stoken.kind = "rel" /\ Head(stoken.u.path) = Up
    /\ sout.rewritten /\ Head(sout.path) = Up
    /\ Known(TokenUrl)

(***************************************************************************)
(* The claims about the normalization of URLs.                             *)
(***************************************************************************)

\* C16: _normalize(_normalize(u)) = _normalize(u) for every URL u and every
\* pinned canonical host.
C16_Idempotent == npc = "twice" => ntwice = nonce

\* a URL whose repeated slashes were collapsed, whose path got the trailing
\* slash and whose host was moved from apex to the pinned www host
C16_Witness ==
    /\ npc = "twice"
    /\ nu.path = <<EmptySeg, Seg("a"), EmptySeg, Seg("b")>>
    /\ nonce.path = <<Seg("a"), Seg("b"), EmptySeg>>
    /\ nu.host = RootHost
    /\ ncanon = <<"www">> \o RootHost
    /\ nonce.host = ncanon

(***************************************************************************)
(* The claims about independent runs.                                      *)
(***************************************************************************)

\* C18: two runs in one process share no limiter and no probe-cache state:
\* a run never reads a limiter cursor another run advanced, nor a probe
\* result another run stored.
C18_RunsShareNothing == \A x \in rreads : x.of = x.by

(***************************************************************************)
(* The claims about the fetch of one URL by the worker.                    *)
(***************************************************************************)

FetchTerminal == fpc \in {"success", "abort", "dropped"}

\* C19: the processing of a URL by the worker follows the FetchRetry state
\* machine: a send comes with exactly one wait on the page limiter, on the
\* first attempt and on every retry; after a send the processing is in
\* SUCCESS, ABORT or DROPPED, or it backs off and then only waits and sends
\* again; a terminal state is left by no step.
C19_FetchRetryMachine ==
    [][ffetcher = "worker" =>
          /\ fpc = "wait" =>
                /\ fpc' = "sent"
                /\ fwaits' = fwaits + 1
                /\ fsends' = fsends + 1
          /\ fpc = "sent" =>
                /\ fpc' \in {"wait", "success", "abort", "dropped"}
                /\ fwaits' = fwaits /\ fsends' = fsends
          /\ fwaits' = fsends'
          /\ ~FetchTerminal]_vars

\* the third attempt, sent after two backoffs, ends with an exception that is
\* not a network error
C19_Witness ==
    /\ ffetcher = "worker"
    /\ fpc = "abort"
    /\ fprev.kind = "exc"
    /\ fsends = 3 /\ fwaits = 3

\* the worker has handled an answer with status 200 whose body carries a
\* soft-block marker
AfterMarker ==
    /\ ffetcher = "worker"
    /\ fpc # "sent"
    /\ fprev.status = 200 /\ fprev.marker

\* C21: a 200 answer with a soft-block marker is handled as a 429 received on
\* the same attempt with the same headers: it is retried while attempts are
\* left and dropped on the last one, whatever its content type, and a numeric
\* Retry-After value r gives the sleep min(r, cap) as it does for a 429.
C21_SoftBlockAs429 ==
    AfterMarker =>
        /\ fpc = IF fattempt < MAX_RETRIES THEN "wait" ELSE "dropped"
        /\ (fpc = "wait" /\ fprev.ra.form = "digits") =>
              fsleep = Tenths(Min(fprev.ra.secs, CAP))

\* an answer with status 200 whose content type is not HTML, or with a
\* status other than 200, 429 and 503
AbortAnswer(r) ==
    /\ r.kind \notin {"none", "net", "exc", "redirect", "noloc"}
    /\ \/ r.status = 200 /\ ~r.html
       \/ r.status \notin {200, 429, 503}

\* C22: when the worker receives a 200 answer that is not HTML, or a status
\* other than 200, 429 and 503, the processing of the URL stops at once: the
\* step that handles the answer ends in ABORT, no DropRecord and no page row
\* has been written, the URL is not in seen, no link has been put, and no
\* step follows.
C22_AbortStopsAtOnce ==
    [][ffetcher = "worker" =>
          /\ (fpc = "sent" /\ AbortAnswer(fprev')) =>
                /\ fpc' = "abort"
                /\ fdrops' = <<>> /\ ~fseen' /\ frows' = 0 /\ fputs' = 0
          /\ ~(fpc = "abort")]_vars

\* the second attempt, sent after a backoff, gets a 200 answer that is not
\* HTML and carries a soft-block marker
C22_Witness ==
    /\ ffetcher = "worker"
    /\ fpc = "abort"
    /\ fsends = 2
    /\ fprev.status = 200 /\ ~fprev.html /\ fprev.marker
    /\ ~fseen /\ frows = 0 /\ fputs = 0 /\ fdrops = <<>>

\* C20: the worker makes at most MAX_RETRIES attempts for a URL; when the
\* last of MAX_RETRIES attempts fails with a network error, a 429 or 503 or a
\* soft block, one DropRecord with the reason of that failure is appended,
\* no sleep follows, and the processing is over; no record is appended
\* otherwise.
C20_DroppedAfterMaxRetries ==
    ffetcher = "worker" =>
        /\ fattempt <= MAX_RETRIES /\ fsends <= MAX_RETRIES
        /\ fpc = "dropped" =>
              /\ fattempt = MAX_RETRIES /\ fsends = MAX_RETRIES
              /\ fdrops = <<FetchDropReason(fprev)>>
              /\ fsleep = 0
        /\ fpc # "dropped" => fdrops = <<>>
        /\ (/\ fsends = MAX_RETRIES
            /\ fpc # "sent"
            /\ fprev.kind \in {"net", "throttle", "soft"}) => fpc = "dropped"

\* five failing attempts that end with a 503
C20_Witness ==
    /\ ffetcher = "worker"
    /\ fpc = "dropped"
    /\ fsends = MAX_RETRIES
    /\ fprev.kind = "throttle" /\ fprev.status = 503
    /\ fdrops = <<"503 after retries">>

(***************************************************************************)
(* The claims about the worker pool.                                       *)
(***************************************************************************)

\* C1: no URL is put on the frontier queue more than once, and no URL is
\* dequeued (and so fetched as a page) more than once within a run.
C1_AtMostOnce ==
    \A u \in AllUrls : put_count[u] <= 1 /\ GetCount(u) <= 1

\* C2: when the run has finished and every page answered 200 HTML, the number
\* of rows of the pages sink and pages_crawled of the manifest both equal
\* min(M, max_pages), M the number of admissible reachable pages.
C2_PagesProcessed ==
    (mainpc = "packaged" /\ AllAnswered200) =>
        /\ manifest = Min(Cardinality(Reachable), max_pages)
        /\ TotalRows = Min(Cardinality(Reachable), max_pages)

\* C3: any two grants of one RateLimiter instance are at least one interval
\* (1/rps) apart: right after construction, under back-to-back callers and
\* after the limiter was idle for longer than one interval.
C3_GrantsSpaced ==
    \A i \in DOMAIN grants : \A j \in DOMAIN grants :
        i < j => grants[j] - grants[i] >= Interval

\* C4: across a whole run, each distinct asset URL is fetched over the
\* network at most once, whichever workers handle the references and whether
\* the first fetch succeeded or failed.
C4_FetchedOnce == \A a \in DOMAIN fetch_count : fetch_count[a] <= 1

\* C5: at the end of a run every URL whose processing ended in failure (retries
\* exhausted, or abandoned on an exception) has a row in the failures sink, and
\* the failures sink has rows for such URLs only.
C5_FailuresListed ==
    mainpc = "packaged" =>
        /\ \A u \in SiteUrls : Failed(u) => u \in FailureUrls
        /\ \A u \in FailureUrls : Failed(u)

\* C6: whatever way the processing of a URL ends, the worker returns to the
\* dequeue (it never stops inside the processing of a URL), and when the run is
\* packaged every URL that was put on the queue has been taken from it and
\* processed to a terminal outcome, with no worker still inside a URL.
C6_WorkerContinues ==
    \A w \in Workers :
        (pc[w] \in Processing /\ pc'[w] \notin Processing) => pc'[w] = "get"

C6_AllTerminal ==
    mainpc = "packaged" =>
        /\ q = <<>>
        /\ \A w \in Workers : pc[w] \notin Processing
        /\ \A u \in SiteUrls : put_count[u] > 0 => outcome[u] # {}

C6_Contained == [][C6_WorkerContinues]_vars /\ []C6_AllTerminal

\* C6 witness: a packaged run in which the processing of one URL ended in a drop,
\* an abort or an exception, and every page of the site was still processed,
\* another one of them with success.
C6_Witness ==
    /\ mainpc = "packaged"
    /\ \A u \in SiteUrls : put_count[u] > 0 /\ outcome[u] # {}
    /\ \E u, y \in SiteUrls :
          /\ u # y
          /\ outcome[u] \cap {"dropped", "abort", "error"} # {}
          /\ "success" \in outcome[y]

\* the call has ended or can go no further
EntryEnded == epc \in {"returned", "raised", "blocked"}

InvalidMode == emode \notin {"live", "wayback"}

\* the archive index was asked for a timestamp and gave none
LookupFailed == elookup \in {"failed", "empty"}

AfterRetryAfter ==
    /\ fpc = "sent"
    /\ fprev.kind = "throttle"
    /\ fprev.ra.form = "digits"

\* C8: when an attempt that is not the last one receives a 429 or 503 with a
\* numeric Retry-After value r, the sleep used is min(r, cap) and the delay to
\* the next attempt is at least min(r, cap), with cap = 30 seconds.
C8_RetryAfterUsed ==
    AfterRetryAfter =>
        /\ fsleep = Tenths(Min(fprev.ra.secs, CAP))
        /\ fdelay >= Tenths(Min(fprev.ra.secs, CAP))

\* C23: max_pages is a soft admission cutoff: in a state where seen holds
\* max_pages URLs or more, no step puts a URL on the queue (the URLs already
\* on the queue are still taken off and processed).
C23_NoPutAtCeiling ==
    [][Cardinality(seen) >= max_pages => Len(q') <= Len(q)]_vars

\* C24: with every fetch returning and the threads scheduled fairly, the
\* queue drains, every URL that was put is taken and marked done, and the
\* archive is packaged, and only then; also when a worker has returned on an
\* empty queue while another one is still inside a page and puts links later.
C24_DrainsThenPackages ==
    /\ <>(mainpc = "packaged")
    /\ \A u \in SiteUrls : (InQ(u) > 0) ~> (InQ(u) = 0 /\ outcome[u] # {})
    /\ [](mainpc = "packaged" =>
             /\ q = <<>> /\ unfinished = 0
             /\ \A w \in Workers : pc[w] \notin Processing)

\* one worker has returned on the empty queue, the other one has put a link
\* of its page on the queue after that
C24_Witness ==
    \E w, y \in Workers :
        /\ pc[w] = "exited"
        /\ pc[y] = "add"
        /\ q # <<>>
        /\ mainpc = "join"

\* C28: the reads and writes of seen and in_queue happen under one mutex, so
\* the membership test of a link and the enqueue that follows it are one
\* atomic step: while a worker is between its test and its in_queue.add, no
\* step of another worker changes seen or in_queue.
C28_TestAndPutAtomic ==
    [][\A w \in Workers :
        (pc[w] \in {"put", "add"} /\ pc'[w] = pc[w])
            => (seen' = seen /\ in_queue' = in_queue)]_vars

\* C29: when the run is packaged the pages sink holds one row for each URL of
\* seen and no other row, and pages_crawled of the manifest is the number of
\* page rows, also when the processing of a fetched page raised.
C29_OneRowPerSeen ==
    mainpc = "packaged" =>
        /\ \A u \in SiteUrls : pages_rows[u] = IF u \in seen THEN 1 ELSE 0
        /\ manifest = TotalRows

\* the URLs taken from the queue whose task_done() is still to come
InProgress == Cardinality({w \in Workers : pc[w] \in Processing})

\* C36: every URL taken from the queue gets one task_done(), on every path of
\* the worker: the unfinished count of the queue is the number of URLs on the
\* queue plus the number of URLs a worker is inside; q.join() returns only
\* when no URL is left on the queue or in a worker, and it does return.
C36_TaskDoneBalanced ==
    /\ [](unfinished = Len(q) + InProgress)
    /\ [][\A w \in Workers :
            (pc[w] \in Processing /\ pc'[w] \notin Processing)
                => unfinished' = unfinished - 1]_vars
    /\ [][mainpc # mainpc' => (q = <<>> /\ InProgress = 0)]_vars
    /\ <>(mainpc = "packaged")

\* C36 witness: q.join() has returned after one URL ended in an exception and
\* another was crawled, both through the finally clause.
C36_Witness ==
    /\ mainpc = "packaged"
    /\ unfinished = 0
    /\ InProgress = 0
    /\ \E u, y \in SiteUrls :
          "error" \in outcome[u] /\ "success" \in outcome[y]

\* C37: once q.join() has returned and the sink files are closed, no worker is
\* between q.get() and q.task_done(), where every write of a worker is made,
\* and no step adds a row, a drop or a seen URL.
C37_NoWriteAfterClose ==
    /\ [](mainpc = "packaged" => \A w \in Workers : pc[w] \in {"get", "exited"})
    /\ [][mainpc = "packaged" =>
            /\ pages_rows' = pages_rows
            /\ dropped' = dropped
            /\ seen' = seen
            /\ q' = q]_vars

\* C37 witness: the files are closed after rows were written, while one worker
\* thread has returned and another is still inside q.get(timeout=1).
C37_Witness ==
    /\ mainpc = "packaged"
    /\ \E u \in SiteUrls : pages_rows[u] > 0
    /\ \E w, v \in Workers : pc[w] = "get" /\ pc[v] = "exited"

\* C38: crawl_to_zip terminates for every value of concurrency: a call that
\* has passed the seed gate is never left waiting in q.join() for a
\* task_done() that no thread will make.
C38_TerminatesForEveryConcurrency ==
    /\ epc # "blocked"
    /\ (epc = "run" => econc >= 1)

\* two URLs that differ in host, path or query string
DifferentResource(a, b) == [a EXCEPT !.scheme = ""] # [b EXCEPT !.scheme = ""]

\* C39: two URLs written in one run that differ in host, path or query string
\* are written to different files, and the file of each still holds its
\* content: no mirrored resource overwrites another.
C39_DistinctFiles ==
    \A i, j \in DOMAIN tmirrored :
        DifferentResource(tmirrored[i].url, tmirrored[j].url) =>
            /\ tmirrored[i].path # tmirrored[j].path
            /\ [path |-> tmirrored[i].path, url |-> tmirrored[i].url] \in tfiles

C9_SeenWithinMaxPages == Cardinality(seen) <= max_pages

\* C10 (as claimed): no URL is in both in_queue and seen.
C10_Disjoint == in_queue \cap seen = {}

\* C10 (amended): no URL ever leaves in_queue, so a URL that enters seen stays in
\* in_queue: every URL of seen is in in_queue, or a worker has put it on the
\* queue and is about to add it to in_queue.
C10_SeenInQueue ==
    \A u \in seen :
        \/ u \in in_queue
        \/ \E w \in Workers : pc[w] = "add" /\ LinksOf(url[w])[li[w]] = u

C10_NeverRemoved == [][in_queue \subseteq in_queue']_vars /\ []C10_SeenInQueue

\* C10 witness: a URL that was on the queue has been fetched and is in both sets.
C10_Witness == \E u \in seen : u \in in_queue /\ u # SeedUrl

====
